---------------------------- MODULE Spec2Model ----------------------------
(***************************************************************************)
(* GitInsight-MCP: the cache service (src/src/cache.ts), the GitHub client *)
(* (src/src/tools/index.ts, from line 15 on), the tools and the request    *)
(* handlers (src/src/index.ts), as one state machine.                      *)
(*                                                                         *)
(* Program strings are sequences of one-character strings, so that         *)
(* concatenation (cache keys), toLowerCase and includes are computed.      *)
(* Time is counted in whole seconds.                                        *)
(***************************************************************************)
EXTENDS Integers, Sequences, FiniteSets, TLC

VARIABLES
  now,      \* Date.now(), in seconds
  data,     \* NodeCache's table: key -> [v |-> payload, t |-> expiry instant]
  calls,    \* SpecCache: the latest call of each key, [op, at, ttl, v]
  ret,      \* what the latest public call returned
  remote,   \* what GitHub holds: repositories, READMEs, commits
  heap,     \* the RepositoryMetadata[] arrays built by listRepositories,
            \* shared by reference (useClones: false)
  tasks,    \* the async function invocations in flight
  reqlog,   \* the Octokit requests issued by the calls still of interest
  nroot,    \* the number of requests the transport has delivered
  cfg       \* the scenario: how many requests arrive, how many at a time

vars == <<now, data, calls, ret, remote, heap, tasks, reqlog, nroot, cfg>>
server == <<remote, heap, tasks, reqlog, nroot, cfg>>

----------------------------------------------------------------------------
(* Bounds of the model.                                                    *)

MaxClock == 5
CacheTtl == 2

----------------------------------------------------------------------------
(* JavaScript values.                                                      *)

Undefined == [ty |-> "undefined"]
Str(s) == [ty |-> "string", s |-> s]

\* if (cached): every value but undefined and the empty string is truthy
\* (arrays and objects are, also when empty).
Truthy(v) ==
  IF v.ty \in {"undefined", "null"} THEN FALSE
  ELSE IF v.ty = "string" THEN v.s # <<>>
  ELSE IF v.ty = "number" THEN v.n # 0
  ELSE IF v.ty = "boolean" THEN v.b
  ELSE TRUE

----------------------------------------------------------------------------
(* The cache: NodeCache behind CacheService.                               *)

NoCall == [op |-> "none"]

NcAliveUnchecked(e, t) == TRUE

\* NodeCache._check: an entry is dead once its expiry instant is in the past.
NcAlive(e, t) == ~(e.t # 0 /\ e.t < t)

\* The ttl CacheService.set hands to NodeCache: ttl || config.cache_ttl.
SetTtl(ttl) == IF ttl = 0 THEN CacheTtl ELSE ttl

NcSetKeepsFirst(d, k, v, ttl, t) ==
  IF k \in DOMAIN d THEN d
  ELSE [x \in DOMAIN d \cup {k} |-> IF x = k THEN [v |-> v, t |-> t + ttl] ELSE d[x]]

\* A set that overwrites the payload of an entry but leaves its expiry.
NcSetKeepsExpiry(d, k, v, ttl, t) ==
  LET e == [v |-> v, t |-> IF k \in DOMAIN d THEN d[k].t
                            ELSE IF ttl = 0 THEN 0 ELSE t + ttl]
  IN  [x \in DOMAIN d \cup {k} |-> IF x = k THEN e ELSE d[x]]

\* NodeCache.set: the entry expires ttl seconds from now; a ttl of 0 never.
NcSet(d, k, v, ttl, t) ==
  LET e == [v |-> v, t |-> IF ttl = 0 THEN 0 ELSE t + ttl]
  IN  [x \in DOMAIN d \cup {k} |-> IF x = k THEN e ELSE d[x]]

NcDel(d, k) == [x \in DOMAIN d \ {k} |-> d[x]]

\* NodeCache.get: the payload of a live entry; a dead entry is deleted on
\* the way (deleteOnExpire) and the read is a miss.
NcGetVal(d, k, t) ==
  IF k \in DOMAIN d /\ NcAlive(d[k], t) THEN d[k].v ELSE Undefined

NcGetData(d, k, t) ==
  IF k \in DOMAIN d /\ ~NcAlive(d[k], t) THEN NcDel(d, k) ELSE d

\* NodeCache._checkData: the periodic sweep runs the same check on every key.
NcSweep(d, t) ==
  [x \in {k \in DOMAIN d : NcAlive(d[k], t)} |-> d[x]]

EmptyCache == [x \in {} |-> Undefined]

----------------------------------------------------------------------------
(* SpecCache: CacheService driven directly.                                *)

CKeys == {<<"a">>, <<"b">>}
CVals == {Str(<<>>), Str(<<"x">>), Str(<<"y">>)}
CTtls == {0, 1, 2}      \* 0: the ttl argument is left out

CacheSet(k, v, ttl) ==
  /\ data' = NcSet(data, k, v, SetTtl(ttl), now)
  /\ calls' = [calls EXCEPT ![k] = [op |-> "set", at |-> now, ttl |-> SetTtl(ttl), v |-> v]]
  /\ ret' = [op |-> "set", k |-> k, v |-> Undefined]
  /\ UNCHANGED <<now, server>>

CacheGet(k) ==
  /\ data' = NcGetData(data, k, now)
  /\ ret' = [op |-> "get", k |-> k, v |-> NcGetVal(data, k, now),
             stale |-> k \in DOMAIN data /\ NcGetVal(data, k, now) = Undefined]
  /\ UNCHANGED <<now, calls, server>>

CacheDelete(k) ==
  /\ data' = NcDel(data, k)
  /\ calls' = [calls EXCEPT ![k] = [op |-> "delete"]]
  /\ ret' = [op |-> "delete", k |-> k, v |-> Undefined]
  /\ UNCHANGED <<now, server>>

CacheClear ==
  /\ data' = EmptyCache
  /\ calls' = [k \in CKeys |-> [op |-> "clear"]]
  /\ ret' = [op |-> "clear", k |-> <<>>, v |-> Undefined]
  /\ UNCHANGED <<now, server>>

Sweep ==
  /\ data' = NcSweep(data, now)
  /\ ret' = [op |-> "sweep", k |-> <<>>, v |-> Undefined]
  /\ UNCHANGED <<now, calls, server>>

Tick ==
  /\ now < MaxClock
  /\ now' = now + 1
  /\ ret' = [op |-> "tick", k |-> <<>>, v |-> Undefined]
  /\ UNCHANGED <<data, calls, server>>

InitCache ==
  /\ now = 0
  /\ data = EmptyCache
  /\ calls = [k \in CKeys |-> NoCall]
  /\ ret = [op |-> "none", k |-> <<>>, v |-> Undefined]
  /\ remote = [repos |-> <<>>, readme |-> <<>>, commits |-> <<>>]
  /\ heap = <<>>
  /\ tasks = <<>>
  /\ reqlog = <<>>
  /\ nroot = 0
  /\ cfg = [maxCalls |-> 0, maxActive |-> 0]

NextCache ==
  \/ \E k \in CKeys, v \in CVals, ttl \in CTtls : CacheSet(k, v, ttl)
  \/ \E k \in CKeys : CacheGet(k)
  \/ \E k \in CKeys : CacheDelete(k)
  \/ CacheClear
  \/ Sweep
  \/ Tick

SpecCache == InitCache /\ [][NextCache]_vars

----------------------------------------------------------------------------
(* Claims about the cache service, checked under SpecCache.                *)

\* C1 as stated: get(k) returns a value only if the most recent set(k) is
\* less than its ttl old and no delete(k) or clear() followed it, and get(k)
\* is a miss once now - insertion_time >= ttl.
C1_ExpiryAtTtl ==
  ret.op = "get" =>
    LET c == calls[ret.k]
    IN  /\ ret.v # Undefined => (c.op = "set" /\ now - c.at < c.ttl)
        /\ (c.op = "set" /\ now - c.at >= c.ttl) => ret.v = Undefined

\* C1 amended: get(k) returns a value only if the most recent set(k) is at
\* most its ttl old and no delete(k) or clear() followed it, and then it is
\* the value of that set; once now - insertion_time > ttl, get(k) is a miss,
\* whether or not the sweep has run.
C1_ExpiryPastTtl ==
  ret.op = "get" =>
    LET c == calls[ret.k]
    IN  /\ ret.v # Undefined => (c.op = "set" /\ now - c.at <= c.ttl /\ ret.v = c.v)
        /\ (c.op = "set" /\ now - c.at > c.ttl) => ret.v = Undefined

\* C1 witness: a get found a dead entry still in the table (no sweep had
\* removed it) and answered with a miss.
C1_LazyMiss ==
  ret.op = "get" /\ ret.stale /\ calls[ret.k].op = "set"

\* C3: a get(k) that directly follows set(k, v) returns v, the value of the
\* latest set of k; a get(k) later than the ttl after the latest set(k)
\* returns absent.
C3_RoundTrip ==
  [][ret'.op = "get" =>
       LET c == calls[ret'.k]
       IN  /\ (ret.op = "set" /\ ret.k = ret'.k) => ret'.v = c.v
           /\ (c.op = "set" /\ now - c.at > c.ttl) => ret'.v = Undefined]_vars

\* C3 witness: a get right after an overwriting set returned the new value.
C3_ReadBack ==
  /\ ret.op = "get"
  /\ calls[ret.k].op = "set"
  /\ now = calls[ret.k].at
  /\ ret.v = calls[ret.k].v
  /\ ret.v = Str(<<"y">>)

----------------------------------------------------------------------------
(* Strings.                                                                *)

UpperCase == <<"A", "B", "C", "D", "E", "F", "G", "H", "I", "J", "K", "L", "M", "N", "O", "P", "Q", "R", "S", "T", "U", "V", "W", "X", "Y", "Z">>
LowerCase == <<"a", "b", "c", "d", "e", "f", "g", "h", "i", "j", "k", "l", "m", "n", "o", "p", "q", "r", "s", "t", "u", "v", "w", "x", "y", "z">>
DigitChars == <<"0", "1", "2", "3", "4", "5", "6", "7", "8", "9">>

LowerChar(c) ==
  IF \E i \in 1..26 : UpperCase[i] = c
  THEN LowerCase[CHOOSE i \in 1..26 : UpperCase[i] = c]
  ELSE c

\* String.prototype.toLowerCase
ToLowerCase(s) == [i \in 1..Len(s) |-> LowerChar(s[i])]

\* String.prototype.includes
Includes(s, sub) ==
  \E i \in 0..(Len(s) - Len(sub)) : SubSeq(s, i + 1, i + Len(sub)) = sub

\* A number in a template literal: its decimal digits.
RECURSIVE Digits(_)
Digits(n) ==
  IF n < 10 THEN <<DigitChars[n + 1]>>
  ELSE Digits(n \div 10) \o <<DigitChars[(n % 10) + 1]>>

Min(a, b) == IF a < b THEN a ELSE b

\* F of the value v, with v worked out once however often F refers to it.
Once(v, F(_)) == CHOOSE r \in {F(x) : x \in {v}} : TRUE

\* The printable ASCII characters in code order, from " " (32) to "~" (126).
Ascii == <<
  " ", "!", "dquote", "#", "$", "%", "&", "'", "(", ")", "*", "+", ",", "-", ".", "/",
  "0", "1", "2", "3", "4", "5", "6", "7", "8", "9", ":", ";", "<", "=", ">", "?",
  "@", "A", "B", "C", "D", "E", "F", "G", "H", "I", "J", "K", "L", "M", "N", "O",
  "P", "Q", "R", "S", "T", "U", "V", "W", "X", "Y", "Z", "[", "backslash", "]", "^", "_",
  "backtick", "a", "b", "c", "d", "e", "f", "g", "h", "i", "j", "k", "l", "m", "n", "o",
  "p", "q", "r", "s", "t", "u", "v", "w", "x", "y", "z", "{", "|", "}", "~">>

CodeUnit(c) == 31 + (CHOOSE i \in 1..Len(Ascii) : Ascii[i] = c)

\* a < b on strings: code unit order.
StrLess(a, b) ==
  \E i \in 1..(Min(Len(a), Len(b)) + 1) :
    /\ SubSeq(a, 1, i - 1) = SubSeq(b, 1, i - 1)
    /\ \/ (i > Len(a) /\ i <= Len(b))
       \/ (i <= Len(a) /\ i <= Len(b) /\ CodeUnit(a[i]) < CodeUnit(b[i]))

\* a.localeCompare(b) > 0 in the default collation, for names of letters and
\* digits: letters compare without case first; of two names that differ in
\* case only, the one with the first lower-case letter comes first.
LocaleAfter(a, b) ==
  LET la == ToLowerCase(a)
      lb == ToLowerCase(b)
  IN  \/ StrLess(lb, la)
      \/ /\ la = lb
         /\ \E i \in 1..Len(a) :
              /\ SubSeq(a, 1, i - 1) = SubSeq(b, 1, i - 1)
              /\ a[i] # b[i]
              /\ a[i] # la[i]

----------------------------------------------------------------------------
(* More JavaScript values: null, arrays (by reference or, when nothing     *)
(* mutates them after they are shared, by value), objects, numbers.        *)

Null == [ty |-> "null"]
ArrRef(r) == [ty |-> "ref", r |-> r]
Arr(items) == [ty |-> "array", items |-> items]
Obj(o) == [ty |-> "object", o |-> o]
Num(n) == [ty |-> "number", n |-> n]
Bool(b) == [ty |-> "boolean", b |-> b]

\* Promise states and upstream outcomes.
Pending == [st |-> "pending"]
Ok(v) == [st |-> "ok", v |-> v]
Err(m) == [st |-> "err", e |-> m]
HttpOk == [ok |-> TRUE]
HttpFail(m) == [ok |-> FALSE, msg |-> m]

----------------------------------------------------------------------------
(* Configuration and program constants.                                    *)

Username == <<"u">>
PerPage == 100

\* The messages of the errors: Octokit's, handleApiError's, the tools' and
\* the handlers'.
Msg ==
  [ rateLimit |-> <<"r", "a", "t", "e", " ", "l", "i", "m", "i", "t">>,
   rateLimited |-> <<"G", "i", "t", "H", "u", "b", " ", "A", "P", "I", " ", "r", "a", "t", "e", " ", "l", "i", "m", "i", "t", " ", "e", "x", "c", "e", "e", "d", "e", "d", ".", " ", "P", "l", "e", "a", "s", "e", " ", "t", "r", "y", " ", "a", "g", "a", "i", "n", " ", "l", "a", "t", "e", "r", ".">>,
   status401 |-> <<"4", "0", "1">>,
   badCredentials |-> <<"B", "a", "d", " ", "c", "r", "e", "d", "e", "n", "t", "i", "a", "l", "s">>,
   invalidToken |-> <<"I", "n", "v", "a", "l", "i", "d", " ", "G", "i", "t", "H", "u", "b", " ", "t", "o", "k", "e", "n", ".", " ", "P", "l", "e", "a", "s", "e", " ", "c", "h", "e", "c", "k", " ", "y", "o", "u", "r", " ", "G", "I", "T", "H", "U", "B", "_", "T", "O", "K", "E", "N", " ", "i", "n", " ", ".", "e", "n", "v", " ", "f", "i", "l", "e", ".">>,
   status404 |-> <<"4", "0", "4">>,
   notFound |-> <<"R", "e", "p", "o", "s", "i", "t", "o", "r", "y", " ", "o", "r", " ", "r", "e", "s", "o", "u", "r", "c", "e", " ", "n", "o", "t", " ", "f", "o", "u", "n", "d", ".">>,
   network |-> <<"n", "e", "t", "w", "o", "r", "k", " ", "d", "o", "w", "n">>,
   nameRequired |-> <<"r", "e", "p", "o", "s", "i", "t", "o", "r", "y", "_", "n", "a", "m", "e", " ", "i", "s", " ", "r", "e", "q", "u", "i", "r", "e", "d">>,
   destructure |-> <<"C", "a", "n", "n", "o", "t", " ", "d", "e", "s", "t", "r", "u", "c", "t", "u", "r", "e", " ", "p", "r", "o", "p", "e", "r", "t", "y", " ", "'", "r", "e", "p", "o", "s", "i", "t", "o", "r", "y", "_", "n", "a", "m", "e", "'", " ", "o", "f", " ", "'", "a", "r", "g", "s", "'", " ", "a", "s", " ", "i", "t", " ", "i", "s", " ", "u", "n", "d", "e", "f", "i", "n", "e", "d", ".">>,
   invalidTime |-> <<"I", "n", "v", "a", "l", "i", "d", " ", "t", "i", "m", "e", " ", "v", "a", "l", "u", "e">>,
   unknownTool |-> <<"U", "n", "k", "n", "o", "w", "n", " ", "t", "o", "o", "l", ":", " ">>,
   unknownResource |-> <<"U", "n", "k", "n", "o", "w", "n", " ", "r", "e", "s", "o", "u", "r", "c", "e", ":", " ">>]

\* The names of the tools, as the switch of the handler has them.
ToolName ==
  [ list_repositories |-> <<"l", "i", "s", "t", "_", "r", "e", "p", "o", "s", "i", "t", "o", "r", "i", "e", "s">>,
   get_repository_details |-> <<"g", "e", "t", "_", "r", "e", "p", "o", "s", "i", "t", "o", "r", "y", "_", "d", "e", "t", "a", "i", "l", "s">>,
   get_recent_commits |-> <<"g", "e", "t", "_", "r", "e", "c", "e", "n", "t", "_", "c", "o", "m", "m", "i", "t", "s">>,
   get_repository_stats |-> <<"g", "e", "t", "_", "r", "e", "p", "o", "s", "i", "t", "o", "r", "y", "_", "s", "t", "a", "t", "s">>,
   search_projects_by_tech |-> <<"s", "e", "a", "r", "c", "h", "_", "p", "r", "o", "j", "e", "c", "t", "s", "_", "b", "y", "_", "t", "e", "c", "h">>,
   get_contribution_activity |-> <<"g", "e", "t", "_", "c", "o", "n", "t", "r", "i", "b", "u", "t", "i", "o", "n", "_", "a", "c", "t", "i", "v", "i", "t", "y">>,
   get_skills_matrix |-> <<"g", "e", "t", "_", "s", "k", "i", "l", "l", "s", "_", "m", "a", "t", "r", "i", "x">>,
   generate_portfolio_summary |-> <<"g", "e", "n", "e", "r", "a", "t", "e", "_", "p", "o", "r", "t", "f", "o", "l", "i", "o", "_", "s", "u", "m", "m", "a", "r", "y">>]

\* The error codes of the tools and of the handler.
Code ==
  [ list_repositories |-> <<"L", "I", "S", "T", "_", "R", "E", "P", "O", "S", "I", "T", "O", "R", "I", "E", "S", "_", "E", "R", "R", "O", "R">>,
   get_repository_details |-> <<"G", "E", "T", "_", "R", "E", "P", "O", "S", "I", "T", "O", "R", "Y", "_", "D", "E", "T", "A", "I", "L", "S", "_", "E", "R", "R", "O", "R">>,
   get_recent_commits |-> <<"G", "E", "T", "_", "R", "E", "C", "E", "N", "T", "_", "C", "O", "M", "M", "I", "T", "S", "_", "E", "R", "R", "O", "R">>,
   get_repository_stats |-> <<"G", "E", "T", "_", "R", "E", "P", "O", "S", "I", "T", "O", "R", "Y", "_", "S", "T", "A", "T", "S", "_", "E", "R", "R", "O", "R">>,
   search_projects_by_tech |-> <<"S", "E", "A", "R", "C", "H", "_", "P", "R", "O", "J", "E", "C", "T", "S", "_", "E", "R", "R", "O", "R">>,
   get_contribution_activity |-> <<"G", "E", "T", "_", "C", "O", "N", "T", "R", "I", "B", "U", "T", "I", "O", "N", "_", "A", "C", "T", "I", "V", "I", "T", "Y", "_", "E", "R", "R", "O", "R">>,
   get_skills_matrix |-> <<"G", "E", "T", "_", "S", "K", "I", "L", "L", "S", "_", "M", "A", "T", "R", "I", "X", "_", "E", "R", "R", "O", "R">>,
   generate_portfolio_summary |-> <<"G", "E", "N", "E", "R", "A", "T", "E", "_", "P", "O", "R", "T", "F", "O", "L", "I", "O", "_", "E", "R", "R", "O", "R">>,
   CallTool |-> <<"T", "O", "O", "L", "_", "E", "X", "E", "C", "U", "T", "I", "O", "N", "_", "E", "R", "R", "O", "R">>]

\* What the tools put before the message of a failure.
FailedTo ==
  [ list_repositories |-> <<"F", "a", "i", "l", "e", "d", " ", "t", "o", " ", "l", "i", "s", "t", " ", "r", "e", "p", "o", "s", "i", "t", "o", "r", "i", "e", "s", ":", " ">>,
   get_repository_details |-> <<"F", "a", "i", "l", "e", "d", " ", "t", "o", " ", "g", "e", "t", " ", "r", "e", "p", "o", "s", "i", "t", "o", "r", "y", " ", "d", "e", "t", "a", "i", "l", "s", ":", " ">>,
   get_recent_commits |-> <<"F", "a", "i", "l", "e", "d", " ", "t", "o", " ", "g", "e", "t", " ", "r", "e", "c", "e", "n", "t", " ", "c", "o", "m", "m", "i", "t", "s", ":", " ">>,
   get_repository_stats |-> <<"F", "a", "i", "l", "e", "d", " ", "t", "o", " ", "g", "e", "t", " ", "r", "e", "p", "o", "s", "i", "t", "o", "r", "y", " ", "s", "t", "a", "t", "s", ":", " ">>,
   search_projects_by_tech |-> <<"F", "a", "i", "l", "e", "d", " ", "t", "o", " ", "s", "e", "a", "r", "c", "h", " ", "p", "r", "o", "j", "e", "c", "t", "s", ":", " ">>,
   get_contribution_activity |-> <<"F", "a", "i", "l", "e", "d", " ", "t", "o", " ", "g", "e", "t", " ", "c", "o", "n", "t", "r", "i", "b", "u", "t", "i", "o", "n", " ", "a", "c", "t", "i", "v", "i", "t", "y", ":", " ">>,
   get_skills_matrix |-> <<"F", "a", "i", "l", "e", "d", " ", "t", "o", " ", "g", "e", "n", "e", "r", "a", "t", "e", " ", "s", "k", "i", "l", "l", "s", " ", "m", "a", "t", "r", "i", "x", ":", " ">>,
   generate_portfolio_summary |-> <<"F", "a", "i", "l", "e", "d", " ", "t", "o", " ", "g", "e", "n", "e", "r", "a", "t", "e", " ", "p", "o", "r", "t", "f", "o", "l", "i", "o", ":", " ">>]

\* The resources with a case of their own.
Uri ==
  [ profile |-> <<"p", "o", "r", "t", "f", "o", "l", "i", "o", ":", "/", "/", "p", "r", "o", "f", "i", "l", "e">>,
   resume |-> <<"p", "o", "r", "t", "f", "o", "l", "i", "o", ":", "/", "/", "r", "e", "s", "u", "m", "e">>]

HandleApiErrorNotFoundFirst(message) ==
  IF Includes(message, Msg.rateLimit) THEN Msg.rateLimited
  ELSE IF Includes(message, Msg.status404) THEN Msg.notFound
  ELSE IF Includes(message, Msg.status401) \/ Includes(message, Msg.badCredentials)
       THEN Msg.invalidToken
  ELSE message

\* GitHubClient.handleApiError, on the message of an Error
HandleApiError(message) ==
  IF Includes(message, Msg.rateLimit) THEN Msg.rateLimited
  ELSE IF Includes(message, Msg.status401) \/ Includes(message, Msg.badCredentials)
       THEN Msg.invalidToken
  ELSE IF Includes(message, Msg.status404) THEN Msg.notFound
  ELSE message

----------------------------------------------------------------------------
(* The state the server's code works on, as one record, so that a step is a *)
(* composition of the functions it calls.                                  *)

St == [data |-> data, heap |-> heap, tasks |-> tasks, reqlog |-> reqlog,
       ret |-> ret, nroot |-> nroot]

\* The step that takes the server from the state it is in to s (s is worked
\* out once).
Apply(s) ==
  \E x \in {s} :
    /\ data' = x.data
    /\ heap' = x.heap
    /\ tasks' = x.tasks
    /\ reqlog' = x.reqlog
    /\ ret' = x.ret
    /\ nroot' = x.nroot
    /\ UNCHANGED <<now, calls, remote, cfg>>

NoLocals == [none |-> TRUE]

\* The smallest task id not in use.
NewId(s) ==
  CHOOSE i \in 1..(Len(s.tasks) + 1) :
    /\ (i <= Len(s.tasks) => s.tasks[i].fn = "free")
    /\ \A j \in 1..(i - 1) : s.tasks[j].fn # "free"

FreeTask == [fn |-> "free"]

PutTask(s, t, rec) ==
  [s EXCEPT !.tasks = IF t > Len(s.tasks) THEN Append(s.tasks, rec)
                      ELSE [s.tasks EXCEPT ![t] = rec]]

RECURSIVE Trim(_)
Trim(ts) ==
  IF ts # <<>> /\ ts[Len(ts)].fn = "free" THEN Trim(SubSeq(ts, 1, Len(ts) - 1))
  ELSE ts

DropTask(s, t) == [s EXCEPT !.tasks = Trim([s.tasks EXCEPT ![t] = FreeTask])]

Live(s) == {t \in 1..Len(s.tasks) : s.tasks[t].fn # "free"}

\* Calling an async function: its invocation gets a task; the caller then
\* runs the function's first segment (up to its first await) at once.
Spawn(s, parent, slot, fn, a) ==
  PutTask(s, NewId(s),
          [fn |-> fn, root |-> IF parent = 0 THEN s.nroot ELSE s.tasks[parent].root,
           parent |-> parent, slot |-> slot, pc |-> "run", a |-> a,
           l |-> NoLocals, req |-> NoLocals, out |-> Pending])

\* The transport delivers a request: a new root invocation. The requests of
\* calls that are over are dropped from the log.
Deliver(s) ==
  LET roots == {s.tasks[t].root : t \in Live(s)}
  IN  [s EXCEPT !.nroot = @ + 1,
                !.reqlog = SelectSeq(@, LAMBDA e : e.root \in roots)]

\* An async function returns or throws. A root's outcome goes to the
\* transport; an invocation nobody awaits any more just ends.
Settle(before, t, out) ==
  Once(before, LAMBDA s :
    Once(s.tasks[t], LAMBDA k :
      IF k.parent = 0
      THEN [DropTask(s, t) EXCEPT
              !.ret = [op |-> k.fn, a |-> k.a, out |-> out, root |-> k.root]]
      ELSE IF k.parent = -1 THEN DropTask(s, t)
      ELSE [s EXCEPT !.tasks[t].out = out, !.tasks[t].pc = "settled"]))

SetLocals(s, t, l) == [s EXCEPT !.tasks[t].l = l]

\* await of an Octokit call: the request goes out and the task is suspended.
Request(s, t, api, arg) ==
  [s EXCEPT !.tasks[t].pc = "http",
            !.tasks[t].req = [api |-> api, arg |-> arg],
            !.reqlog = Append(@, [root |-> s.tasks[t].root, task |-> t,
                                  fn |-> s.tasks[t].fn, api |-> api, arg |-> arg])]

\* await of async functions of this program.
Await(s, t) == [s EXCEPT !.tasks[t].pc = "await"]

Children(s, t) == {c \in Live(s) : s.tasks[c].parent = t}
Child(s, t, slot) == CHOOSE c \in Children(s, t) : s.tasks[c].slot = slot

\* A continuation is in the microtask queue: what the task awaits is settled
\* (Promise.all: all fulfilled, or one rejected).
Ready(s, t) ==
  /\ t \in Live(s)
  /\ \/ s.tasks[t].pc = "join"
     \/ /\ s.tasks[t].pc = "await"
        /\ \/ \A c \in Children(s, t) : s.tasks[c].pc = "settled"
           \/ \E c \in Children(s, t) : s.tasks[c].out.st = "err"

\* Timers, I/O callbacks and new requests run only once the microtask queue
\* is empty.
Quiescent(s) == \A t \in Live(s) : ~Ready(s, t)

\* The parent takes its children's results: the settled ones end, the ones
\* still running go on with nobody awaiting them.
Reap(before, t) ==
  Once(before, LAMBDA s :
    [s EXCEPT !.tasks = Trim([c \in 1..Len(s.tasks) |->
       IF s.tasks[c].fn # "free" /\ s.tasks[c].parent = t
       THEN IF s.tasks[c].pc = "settled" THEN FreeTask
            ELSE [s.tasks[c] EXCEPT !.parent = -1]
       ELSE s.tasks[c]])])

\* An array value's elements.
Items(s, v) == IF v.ty = "ref" THEN s.heap[v.r] ELSE v.items

----------------------------------------------------------------------------
(* GitHub, as Octokit shows it.                                            *)

\* repos.listForUser({per_page, page}): one page of the user's repositories.
PageOf(repos, page, perPage) ==
  SubSeq(repos, (page - 1) * perPage + 1, Min(page * perPage, Len(repos)))

\* The upstream errors told apart by handleApiError, and one it passes on.
ApiErrors == {Msg.rateLimit, Msg.status401, Msg.status404, Msg.network}

----------------------------------------------------------------------------
(* GitHubClient.listRepositories                                           *)

ReposKey == <<"r", "e", "p", "o", "s", ":">> \o Username \o <<":", "a", "l", "l">>

\* repositories.map(repo => ({...})): Repository to RepositoryMetadata.
Normalise(repo) ==
  [name |-> repo.name,
   full_name |-> repo.full_name,
   description |-> repo.description,
   url |-> repo.html_url,
   stars |-> repo.stargazers_count,
   forks |-> repo.forks_count,
   language |-> repo.language,
   topics |-> IF Truthy(repo.topics) THEN repo.topics.items ELSE <<>>,
   last_updated |-> repo.updated_at,
   created_at |-> repo.created_at,
   open_issues |-> repo.open_issues_count,
   homepage |-> repo.homepage]

Metadata(repositories) ==
  [i \in 1..Len(repositories) |-> Normalise(repositories[i])]

HasMoreAnyData(n) == n > 0

\* hasMore = response.data.length === 100
HasMore(n) == n = PerPage

ListRepositoriesRequest(s, t, page, repositories) ==
  Request(SetLocals(s, t, [page |-> page, repositories |-> repositories]),
          t, "listForUser", [page |-> page, per_page |-> PerPage])

ListRepositoriesBeginShared(s, t) ==
  IF \E u \in Live(s) : u # t /\ s.tasks[u].fn = "listRepositories" /\ s.tasks[u].pc = "http"
  THEN Await(s, t)
  ELSE ListRepositoriesRequest(s, t, 1, <<>>)

\* A listRepositories that looks into the cache whatever it is told.
ListRepositoriesBeginAlwaysCached(s, t) ==
  LET cached == NcGetVal(s.data, ReposKey, now)
      s1 == [s EXCEPT !.data = NcGetData(@, ReposKey, now)]
  IN  IF Truthy(cached) THEN Settle(s1, t, Ok(cached))
      ELSE ListRepositoriesRequest(s1, t, 1, <<>>)

\* Up to the first await: the cache check, then the request for page 1.
ListRepositoriesBegin(s, t) ==
  LET useCache == s.tasks[t].a.useCache
      cached == IF useCache THEN NcGetVal(s.data, ReposKey, now) ELSE Undefined
      s1 == IF useCache THEN [s EXCEPT !.data = NcGetData(@, ReposKey, now)] ELSE s
  IN  IF useCache /\ Truthy(cached) THEN Settle(s1, t, Ok(cached))
      ELSE ListRepositoriesRequest(s1, t, 1, <<>>)

\* A listRepositories that caches an empty list when its request fails.
ListRepositoriesPageCachingFailure(s, t, outcome) ==
  LET l == s.tasks[t].l
  IN  IF ~outcome.ok
      THEN LET r == Len(s.heap) + 1
               s1 == [s EXCEPT !.heap = Append(@, <<>>),
                               !.data = NcSet(@, ReposKey, ArrRef(r), SetTtl(0), now)]
           IN  Settle(s1, t, Err(HandleApiError(outcome.msg)))
      ELSE LET response == PageOf(remote.repos, l.page, PerPage)
               repositories == l.repositories \o response
           IN  IF HasMore(Len(response))
               THEN ListRepositoriesRequest(s, t, l.page + 1, repositories)
               ELSE LET r == Len(s.heap) + 1
                        s1 == [s EXCEPT
                                 !.heap = Append(@, Metadata(repositories)),
                                 !.data = NcSet(@, ReposKey, ArrRef(r), SetTtl(0), now)]
                    IN  Settle(s1, t, Ok(ArrRef(r)))

\* A listRepositories that asks for no page after the second.
ListRepositoriesPageCapped(s, t, outcome) ==
  LET l == s.tasks[t].l
  IN  IF ~outcome.ok THEN Settle(s, t, Err(HandleApiError(outcome.msg)))
      ELSE LET response == PageOf(remote.repos, l.page, PerPage)
               repositories == l.repositories \o response
           IN  IF HasMore(Len(response)) /\ l.page < 2
               THEN ListRepositoriesRequest(s, t, l.page + 1, repositories)
               ELSE LET r == Len(s.heap) + 1
                        s1 == [s EXCEPT
                                 !.heap = Append(@, Metadata(repositories)),
                                 !.data = NcSet(@, ReposKey, ArrRef(r), SetTtl(0), now)]
                    IN  Settle(s1, t, Ok(ArrRef(r)))

\* A page arrives, or the request fails: the loop goes on with the next
\* page, or the list is normalised, cached and returned.
ListRepositoriesPage(s, t, outcome) ==
  LET l == s.tasks[t].l
  IN  IF ~outcome.ok THEN Settle(s, t, Err(HandleApiError(outcome.msg)))
      ELSE LET response == PageOf(remote.repos, l.page, PerPage)
               repositories == l.repositories \o response
           IN  IF HasMore(Len(response))
               THEN ListRepositoriesRequest(s, t, l.page + 1, repositories)
               ELSE LET r == Len(s.heap) + 1
                        s1 == [s EXCEPT
                                 !.heap = Append(@, Metadata(repositories)),
                                 !.data = NcSet(@, ReposKey, ArrRef(r), SetTtl(0), now)]
                    IN  Settle(s1, t, Ok(ArrRef(r)))

----------------------------------------------------------------------------
(* The result envelopes of the tools.                                      *)

\* An envelope that reports the cache as used whatever was asked.
SuccessAlwaysCached(d, cached) ==
  Obj([success |-> TRUE, data |-> d, cached |-> TRUE, timestamp |-> now])

Success(d, cached) ==
  Obj([success |-> TRUE, data |-> d, cached |-> cached, timestamp |-> now])

\* createErrorResponse inside a failure envelope
Failure(code, message) ==
  Obj([success |-> FALSE,
       error |-> [error |-> code, message |-> message, timestamp |-> now],
       timestamp |-> now])

\* const { use_cache = true } = args
UseCacheOf(args) ==
  IF args.o.use_cache.ty = "undefined" THEN TRUE ELSE args.o.use_cache.b

----------------------------------------------------------------------------
(* Tool list_repositories                                                  *)

\* The values of sort_by.
SortBy ==
  [ stars |-> Str(<<"s", "t", "a", "r", "s">>),
   forks |-> Str(<<"f", "o", "r", "k", "s">>),
   updated |-> Str(<<"u", "p", "d", "a", "t", "e", "d">>),
   created |-> Str(<<"c", "r", "e", "a", "t", "e", "d">>),
   name |-> Str(<<"n", "a", "m", "e">>)]

NoListArgs == Obj([use_cache |-> Undefined, sort_by |-> Undefined, limit |-> Undefined])

ToolListRepositoriesBegin(s, t) ==
  LET c == NewId(s)
      s1 == Spawn(s, t, "repos", "listRepositories",
                  [useCache |-> UseCacheOf(s.tasks[t].a)])
  IN  Await(ListRepositoriesBegin(s1, c), t)

OrderAsc == Str(<<"a", "s", "c">>)

\* new Date(date).getTime() is NaN for a date that does not parse.
ValidDate(d) == d.ty = "date"

\* The sort key searchProjectsByTech compares by.
SearchKeyOf(sort_by, repo) ==
  IF sort_by = SortBy.stars THEN Num(repo.stars)
  ELSE IF sort_by = SortBy.forks THEN Num(repo.forks)
  ELSE IF sort_by = SortBy.updated THEN Num(repo.last_updated)
  ELSE IF sort_by = SortBy.created THEN Num(repo.created_at)
  ELSE IF sort_by = SortBy.name THEN Str(ToLowerCase(repo.name))
  ELSE Num(0)

\* aVal < bVal, on two numbers or two strings.
ValLess(x, y) == IF x.ty = "number" THEN x.n < y.n ELSE StrLess(x.s, y.s)

\* The comparators of the program's sorts; After(cmp, a, b) stands for
\* compare(a, b) > 0. A comparator whose result is NaN counts as 0.
\* searchProjectsByTech's comparator never returns 0: where the two keys are
\* equal the order the engine leaves them in is not defined, and cmp.tie
\* says which of the two orders it is.
After(cmp, a, b) ==
  CASE cmp.by = "list" ->
         IF cmp.key = SortBy.stars THEN b.stars > a.stars
         ELSE IF cmp.key = SortBy.forks THEN b.forks > a.forks
         ELSE IF cmp.key = SortBy.updated THEN b.last_updated > a.last_updated
         ELSE IF cmp.key = SortBy.name THEN LocaleAfter(a.name, b.name)
         ELSE FALSE
    [] cmp.by = "search" ->
         LET aVal == SearchKeyOf(cmp.key, a)
             bVal == SearchKeyOf(cmp.key, b)
         IN  IF aVal = bVal THEN cmp.tie = "swap"
             ELSE IF cmp.order = OrderAsc THEN ValLess(bVal, aVal)
             ELSE ValLess(aVal, bVal)
    [] cmp.by = "date" -> ValidDate(a.date) /\ ValidDate(b.date) /\ b.date.ts > a.date.ts
    [] cmp.by = "count" -> b.count > a.count
    [] cmp.by = "updated" -> b.last_updated > a.last_updated
    [] cmp.by = "day" -> b > a

\* Array.prototype.sort, as an insertion sort: an element moves left past
\* the elements that compare after it. For a consistent comparator this is
\* the stable sort the language requires.
RECURSIVE Insert(_, _, _)
Insert(cmp, sorted, x) ==
  Once(sorted, LAMBDA s :
    IF s = <<>> \/ ~After(cmp, s[Len(s)], x) THEN Append(s, x)
    ELSE Append(Insert(cmp, SubSeq(s, 1, Len(s) - 1), x), s[Len(s)]))

\* The elements seq[lo..hi] inserted one after the other, left to right
\* (the first half is worked out before the second is begun, which keeps
\* the evaluation shallow).
RECURSIVE InsertAll(_, _, _, _, _)
InsertAll(cmp, sorted, seq, lo, hi) ==
  IF lo > hi THEN sorted
  ELSE IF lo = hi THEN Insert(cmp, sorted, seq[lo])
  ELSE LET mid == (lo + hi) \div 2
       IN  Once(InsertAll(cmp, sorted, seq, lo, mid),
                LAMBDA left : InsertAll(cmp, left, seq, mid + 1, hi))

Sort(cmp, seq) == Once(seq, LAMBDA q : InsertAll(cmp, <<>>, q, 1, Len(q)))

\* After await githubClient.listRepositories: sort a copy, cut to the limit,
\* wrap; a failure is caught and wrapped.
ToolListRepositoriesResume(s, t) ==
  LET args == s.tasks[t].a.o
      out == s.tasks[Child(s, t, "repos")].out
      s1 == Reap(s, t)
  IN  IF out.st = "err"
      THEN Settle(s1, t, Ok(Failure(Code.list_repositories, FailedTo.list_repositories \o out.e)))
      ELSE LET sorted ==
                 IF Truthy(args.sort_by)
                 THEN Arr(Sort([by |-> "list", key |-> args.sort_by], Items(s, out.v)))
                 ELSE out.v
               limited ==
                 IF Truthy(args.limit) /\ args.limit.n > 0
                 THEN Arr(SubSeq(Items(s, sorted), 1,
                                 Min(args.limit.n, Len(Items(s, sorted)))))
                 ELSE sorted
           IN  Settle(s1, t, Ok(Success(limited, UseCacheOf(s.tasks[t].a))))

----------------------------------------------------------------------------
(* The remote: the account's repositories, and per repository (by position *)
(* in the list) its README as GitHub serves it and its commits.            *)

\* The position of the repository called name, 0 if there is none.
RepoIndex(name) ==
  IF \E i \in 1..Len(remote.repos) : remote.repos[i].name = name
  THEN CHOOSE i \in 1..Len(remote.repos) : remote.repos[i].name = name
  ELSE 0

\* Whether the request can succeed: the resource it names exists.
Servable(req) ==
  IF req.api \in {"listForUser", "rateLimit"} THEN TRUE
  ELSE IF req.api = "getReadme"
  THEN RepoIndex(req.arg.repo) > 0 /\ remote.readme[RepoIndex(req.arg.repo)].ty = "string"
  ELSE RepoIndex(req.arg.repo) > 0

Base64 == <<
  "A", "B", "C", "D", "E", "F", "G", "H", "I", "J", "K", "L", "M", "N", "O", "P",
  "Q", "R", "S", "T", "U", "V", "W", "X", "Y", "Z", "a", "b", "c", "d", "e", "f",
  "g", "h", "i", "j", "k", "l", "m", "n", "o", "p", "q", "r", "s", "t", "u", "v",
  "w", "x", "y", "z", "0", "1", "2", "3", "4", "5", "6", "7", "8", "9", "+", "/">>

Base64Value(c) == (CHOOSE i \in 1..64 : Base64[i] = c) - 1

\* A byte as a character; bytes outside printable ASCII are not told apart.
CharOf(byte) == IF byte >= 32 /\ byte <= 126 THEN Ascii[byte - 31] ELSE "?"

\* Buffer.from(content, 'base64').toString('utf-8'): decoding stops at the
\* padding; a trailing group of 2 or 3 characters gives 1 or 2 bytes.
RECURSIVE DecodeBase64(_)
DecodeBase64(s) ==
  LET v(i) == Base64Value(s[i])
  IN  IF Len(s) < 2 \/ s[1] = "=" \/ s[2] = "=" THEN <<>>
      ELSE LET b1 == v(1) * 4 + (v(2) \div 16)
           IN  IF Len(s) < 3 \/ s[3] = "=" THEN <<CharOf(b1)>>
               ELSE LET b2 == (v(2) % 16) * 16 + (v(3) \div 4)
                    IN  IF Len(s) < 4 \/ s[4] = "=" THEN <<CharOf(b1), CharOf(b2)>>
                        ELSE <<CharOf(b1), CharOf(b2), CharOf((v(3) % 4) * 64 + v(4))>>
                             \o DecodeBase64(SubSeq(s, 5, Len(s)))

----------------------------------------------------------------------------
(* GitHubClient.getRepositoryDetails                                       *)

RepoKey(repoName) == <<"r", "e", "p", "o", ":">> \o Username \o <<":">> \o repoName

\* Up to the first await: the cache check, then repos.get.
GetRepositoryDetailsBegin(s, t) ==
  LET a == s.tasks[t].a
      key == RepoKey(a.repoName)
      cached == IF a.useCache THEN NcGetVal(s.data, key, now) ELSE Undefined
      s1 == IF a.useCache THEN [s EXCEPT !.data = NcGetData(@, key, now)] ELSE s
  IN  IF a.useCache /\ Truthy(cached) THEN Settle(s1, t, Ok(cached))
      ELSE Request(s1, t, "get", [repo |-> a.repoName])

\* repos.get answers: on success the topics are asked for.
GetRepositoryDetailsGot(s, t, outcome) ==
  IF ~outcome.ok THEN Settle(s, t, Err(HandleApiError(outcome.msg)))
  ELSE Request(SetLocals(s, t, [repo |-> remote.repos[RepoIndex(s.tasks[t].a.repoName)]]),
               t, "getAllTopics", [repo |-> s.tasks[t].a.repoName])

GetRepositoryDetailsTopicsFatal(s, t, outcome) ==
  IF ~outcome.ok THEN Settle(s, t, Err(HandleApiError(outcome.msg)))
  ELSE LET repo == Obj(s.tasks[t].l.repo)
       IN  Settle([s EXCEPT !.data = NcSet(@, RepoKey(s.tasks[t].a.repoName), repo,
                                           SetTtl(0), now)], t, Ok(repo))

\* repos.getAllTopics answers or fails: the repository gets the topics or
\* none, is cached and returned.
GetRepositoryDetailsTopics(s, t, outcome) ==
  LET raw == s.tasks[t].l.repo
      names == IF raw.topics.ty = "array" THEN raw.topics.items ELSE <<>>
      repo == Obj([raw EXCEPT !.topics = Arr(IF outcome.ok THEN names ELSE <<>>)])
      s1 == [s EXCEPT !.data = NcSet(@, RepoKey(s.tasks[t].a.repoName), repo, SetTtl(0), now)]
  IN  Settle(s1, t, Ok(repo))

----------------------------------------------------------------------------
(* GitHubClient.getRepositoryReadme                                        *)

ReadmeKey(repoName) == <<"r", "e", "a", "d", "m", "e", ":">> \o Username \o <<":">> \o repoName

GetRepositoryReadmeBegin(s, t) ==
  LET a == s.tasks[t].a
      key == ReadmeKey(a.repoName)
      cached == IF a.useCache THEN NcGetVal(s.data, key, now) ELSE Undefined
      s1 == IF a.useCache THEN [s EXCEPT !.data = NcGetData(@, key, now)] ELSE s
  IN  IF a.useCache /\ Truthy(cached) THEN Settle(s1, t, Ok(cached))
      ELSE Request(s1, t, "getReadme", [repo |-> a.repoName])

GetRepositoryReadmeGotCaching(s, t, outcome) ==
  LET content == IF outcome.ok
                 THEN Str(DecodeBase64(remote.readme[RepoIndex(s.tasks[t].a.repoName)].s))
                 ELSE Str(<<>>)
      s1 == [s EXCEPT !.data = NcSet(@, ReadmeKey(s.tasks[t].a.repoName), content,
                                      SetTtl(0), now)]
  IN  Settle(s1, t, Ok(content))

\* repos.getReadme answers: the decoded content is cached and returned; any
\* failure gives the empty string.
GetRepositoryReadmeGot(s, t, outcome) ==
  IF ~outcome.ok THEN Settle(s, t, Ok(Str(<<>>)))
  ELSE LET content == Str(DecodeBase64(remote.readme[RepoIndex(s.tasks[t].a.repoName)].s))
           s1 == [s EXCEPT !.data = NcSet(@, ReadmeKey(s.tasks[t].a.repoName), content,
                                           SetTtl(0), now)]
       IN  Settle(s1, t, Ok(content))

----------------------------------------------------------------------------
(* Tool get_repository_details                                             *)

DetailsArgs(repository_name, use_cache, include_readme) ==
  Obj([repository_name |-> repository_name, use_cache |-> use_cache,
       include_readme |-> include_readme])

DetailsFailure(message) ==
  Ok(Failure(Code.get_repository_details, FailedTo.get_repository_details \o message))

\* A tool that calls the client without checking the name.
ToolRepositoryDetailsBeginUnchecked(s, t) ==
  LET args == s.tasks[t].a
  IN  IF args.ty # "object" THEN Settle(s, t, DetailsFailure(Msg.destructure))
      ELSE LET c == NewId(s)
           IN  Await(GetRepositoryDetailsBegin(
                       Spawn(s, t, "repository", "getRepositoryDetails",
                             [repoName |-> IF Truthy(args.o.repository_name)
                                           THEN args.o.repository_name.s ELSE <<>>,
                              useCache |-> UseCacheOf(args)]), c), t)

\* Up to the first await: the arguments are taken apart and checked inside
\* the try block, then the client is called.
ToolRepositoryDetailsBegin(s, t) ==
  LET args == s.tasks[t].a
  IN  IF args.ty # "object" THEN Settle(s, t, DetailsFailure(Msg.destructure))
      ELSE IF ~Truthy(args.o.repository_name)
      THEN Settle(s, t, DetailsFailure(Msg.nameRequired))
      ELSE LET c == NewId(s)
           IN  Await(GetRepositoryDetailsBegin(
                       Spawn(s, t, "repository", "getRepositoryDetails",
                             [repoName |-> args.o.repository_name.s,
                              useCache |-> UseCacheOf(args)]), c), t)

\* After either await: the README is fetched if asked for, then the result
\* is wrapped.
ToolRepositoryDetailsResume(s, t) ==
  LET args == s.tasks[t].a
      use_cache == UseCacheOf(args)
      s1 == Reap(s, t)
  IN  IF \E c \in Children(s, t) : s.tasks[c].slot = "repository"
      THEN LET out == s.tasks[Child(s, t, "repository")].out
           IN  IF out.st = "err" THEN Settle(s1, t, DetailsFailure(out.e))
               ELSE IF Truthy(args.o.include_readme)
               THEN LET c == NewId(s1)
                    IN  Await(GetRepositoryReadmeBegin(
                                Spawn(SetLocals(s1, t, [repository |-> out.v]),
                                      t, "readme", "getRepositoryReadme",
                                      [repoName |-> args.o.repository_name.s,
                                       useCache |-> use_cache]), c), t)
               ELSE Settle(s1, t, Ok(Success(Obj([repository |-> out.v]), use_cache)))
      ELSE LET out == s.tasks[Child(s, t, "readme")].out
           IN  Settle(s1, t, Ok(Success(Obj([repository |-> s.tasks[t].l.repository,
                                             readme |-> out.v]), use_cache)))

----------------------------------------------------------------------------
(* GitHubClient.getRecentCommits                                           *)

WholeList == Len(remote.repos)

FanOut == 10
FanPerPage == 5
TicksPerDay == 2

CommitsKey(repoName, limit) ==
  <<"c", "o", "m", "m", "i", "t", "s", ":">> \o Username \o <<":">>
  \o (IF Truthy(repoName) THEN repoName.s ELSE <<"a", "l", "l">>) \o <<":">> \o Digits(limit)

\* response.data.map(commit => ({...})): of a commit the model keeps its
\* sha, its author date ('' where the author is missing) and the repository.
CommitOf(raw, repoName) ==
  [sha |-> raw.sha,
   date |-> IF Truthy(raw.date) THEN raw.date ELSE Str(<<>>),
   repository |-> repoName]

\* repos.listCommits({repo, per_page}): the repository's newest commits.
ListCommits(repoName, per_page) ==
  LET all == remote.commits[RepoIndex(repoName)]
  IN  [i \in 1..Min(per_page, Len(all)) |-> CommitOf(all[i], repoName)]

RECURSIVE Flat(_)
Flat(arrays) ==
  Once(arrays, LAMBDA q :
    IF q = <<>> THEN <<>> ELSE q[1] \o Flat(SubSeq(q, 2, Len(q))))

\* cache.set(cacheKey, commits); return commits
CommitsDone(before, t, list) ==
  Once(before, LAMBDA s :
    Once(list, LAMBDA commits :
      LET a == s.tasks[t].a
          s1 == [s EXCEPT !.data = NcSet(@, CommitsKey(a.repoName, a.limit), Arr(commits),
                                          SetTtl(0), now)]
      IN  Settle(s1, t, Ok(Arr(commits)))))

\* Up to the first await: the cache check, then either the request for the
\* named repository's commits or the call of listRepositories.
GetRecentCommitsBegin(s, t) ==
  LET a == s.tasks[t].a
      key == CommitsKey(a.repoName, a.limit)
      cached == IF a.useCache THEN NcGetVal(s.data, key, now) ELSE Undefined
      s1 == IF a.useCache THEN [s EXCEPT !.data = NcGetData(@, key, now)] ELSE s
  IN  IF a.useCache /\ Truthy(cached) THEN Settle(s1, t, Ok(cached))
      ELSE IF Truthy(a.repoName)
      THEN Request(s1, t, "listCommits", [repo |-> a.repoName.s, per_page |-> a.limit])
      ELSE LET c == NewId(s1)
           IN  Await(ListRepositoriesBegin(
                       Spawn(s1, t, "repos", "listRepositories", [useCache |-> a.useCache]),
                       c), t)

\* The named repository's commits arrive, or the request fails.
GetRecentCommitsGot(s, t, outcome) ==
  IF ~outcome.ok THEN Settle(s, t, Err(HandleApiError(outcome.msg)))
  ELSE CommitsDone(s, t, ListCommits(s.tasks[t].a.repoName.s, s.tasks[t].a.limit))

\* allCommits.flat().sort(by date, newest first).slice(0, limit)
MergeCommits(allCommits, limit) ==
  LET sorted == Sort([by |-> "date"], Flat(allCommits))
  IN  SubSeq(sorted, 1, Min(limit, Len(sorted)))

RECURSIVE FanRequests(_, _, _, _)
FanRequests(s, t, names, i) ==
  IF i > Len(names) THEN s
  ELSE FanRequests([s EXCEPT !.reqlog = Append(@,
                      [root |-> s.tasks[t].root, task |-> t, fn |-> s.tasks[t].fn,
                       api |-> "listCommits",
                       arg |-> [repo |-> names[i], per_page |-> FanPerPage]])],
                   t, names, i + 1)

\* After await this.listRepositories: one request for each of the first
\* FanOut repositories goes out, and the task waits for all of them.
GetRecentCommitsFan(s, t) ==
  LET out == s.tasks[Child(s, t, "repos")].out
      s1 == Reap(s, t)
  IN  IF out.st = "err" THEN Settle(s1, t, Err(HandleApiError(out.e)))
      ELSE LET repos == Items(s, out.v)
               names == [i \in 1..Min(FanOut, Len(repos)) |-> repos[i].name]
           IN  IF names = <<>> THEN CommitsDone(s1, t, <<>>)
               ELSE FanRequests(
                      [s1 EXCEPT !.tasks[t].pc = "fan",
                                 !.tasks[t].l = [names |-> names,
                                                 pending |-> 1..Len(names),
                                                 got |-> [i \in 1..Len(names) |-> <<>>]]],
                      t, names, 1)

\* A fan-out in which a failed request fails the operation.
GetRecentCommitsFanGotStrict(s, t, i, outcome) ==
  LET l == s.tasks[t].l
      got == [l.got EXCEPT ![i] = IF outcome.ok THEN ListCommits(l.names[i], FanPerPage)
                                  ELSE <<>>]
      s1 == [s EXCEPT !.tasks[t].l.got = got, !.tasks[t].l.pending = @ \ {i}]
  IN  IF ~outcome.ok THEN Settle(s1, t, Err(HandleApiError(outcome.msg)))
      ELSE IF l.pending = {i} THEN CommitsDone(s1, t, MergeCommits(got, s.tasks[t].a.limit))
      ELSE s1

\* One of the fan-out's requests is answered; a failure counts as no
\* commits. With the last answer Promise.all resolves and the commits are
\* merged, cached and returned.
GetRecentCommitsFanGot(s, t, i, outcome) ==
  Once(s.tasks[t].l, LAMBDA l :
    Once([l.got EXCEPT ![i] = IF outcome.ok THEN ListCommits(l.names[i], FanPerPage)
                              ELSE <<>>], LAMBDA got :
      LET s1 == [s EXCEPT !.tasks[t].l.got = got, !.tasks[t].l.pending = @ \ {i}]
      IN  IF l.pending = {i} THEN CommitsDone(s1, t, MergeCommits(got, s.tasks[t].a.limit))
          ELSE s1))

----------------------------------------------------------------------------
(* GitHubClient.getContributionActivity and its helpers                    *)

ActivityKey == <<"a", "c", "t", "i", "v", "i", "t", "y", ":">> \o Username
ActivityLimit == 100
NotAvailable == Str(<<"N", "/", "A">>)

\* new Date(date).toISOString().split('T')[0], as a day number.
DayOf(date) == date.ts \div TicksPerDay

\* .filter((date, index, self) => self.indexOf(date) === index)
Distinct(seq) ==
  Once(seq, LAMBDA q :
    SelectSeq([i \in 1..Len(q) |-> [v |-> q[i], first |-> \A j \in 1..(i - 1) : q[j] # q[i]]],
              LAMBDA e : e.first))

Values(marked) == [i \in 1..Len(marked) |-> marked[i].v]

\* GitHubClient.findMostActiveDay: the first day, in order of first
\* appearance, that no other day has more commits than.
FindMostActiveDay(commits) ==
  IF commits = <<>> THEN NotAvailable
  ELSE Once([i \in 1..Len(commits) |-> DayOf(commits[i].date)], LAMBDA days :
         Once(Values(Distinct(days)), LAMBDA seen :
           LET count(d) == Cardinality({i \in 1..Len(days) : days[i] = d})
               best == CHOOSE k \in 1..Len(seen) :
                         /\ \A j \in 1..Len(seen) : count(seen[j]) <= count(seen[k])
                         /\ \A j \in 1..(k - 1) : count(seen[j]) < count(seen[k])
           IN  [ty |-> "day", d |-> seen[best]]))

RECURSIVE StreakLoopNoBreak(_, _, _)
StreakLoopNoBreak(dates, i, streak) ==
  IF i > Len(dates) - 1 THEN streak
  ELSE StreakLoopNoBreak(dates, i + 1,
                         IF dates[i] - dates[i + 1] = 1 THEN streak + 1 ELSE streak)

\* The loop of calculateStreak over the distinct days, newest first.
RECURSIVE StreakLoop(_, _, _)
StreakLoop(dates, i, streak) ==
  IF i > Len(dates) - 1 THEN streak
  ELSE LET diffDays == dates[i] - dates[i + 1]
       IN  IF diffDays = 1 THEN StreakLoop(dates, i + 1, streak + 1)
           ELSE IF diffDays > 1 THEN streak
           ELSE StreakLoop(dates, i + 1, streak)

\* GitHubClient.calculateStreak
CalculateStreak(commits) ==
  IF commits = <<>> THEN 0
  ELSE LET days == [i \in 1..Len(commits) |-> DayOf(commits[i].date)]
           dates == Sort([by |-> "day"], Values(Distinct(days)))
       IN  Once(dates, LAMBDA d : StreakLoop(d, 1, 1))

GetContributionActivityBegin(s, t) ==
  LET a == s.tasks[t].a
      cached == IF a.useCache THEN NcGetVal(s.data, ActivityKey, now) ELSE Undefined
      s1 == IF a.useCache THEN [s EXCEPT !.data = NcGetData(@, ActivityKey, now)] ELSE s
  IN  IF a.useCache /\ Truthy(cached) THEN Settle(s1, t, Ok(cached))
      ELSE LET c == NewId(s1)
           IN  Await(GetRecentCommitsBegin(
                       Spawn(s1, t, "commits", "getRecentCommits",
                             [repoName |-> Undefined, limit |-> ActivityLimit,
                              useCache |-> a.useCache]), c), t)

\* After await this.getRecentCommits: the metrics are computed, cached and
\* returned. A commit whose date does not parse makes toISOString throw.
GetContributionActivityResume(s, t) ==
  LET out == s.tasks[Child(s, t, "commits")].out
      s1 == Reap(s, t)
  IN  IF out.st = "err" THEN Settle(s1, t, Err(HandleApiError(out.e)))
      ELSE Once(Items(s, out.v), LAMBDA commits :
             IF \E i \in 1..Len(commits) : ~ValidDate(commits[i].date)
             THEN Settle(s1, t, Err(HandleApiError(Msg.invalidTime)))
             ELSE Once(Obj([total_commits |-> Len(commits),
                            repositories_contributed_to |->
                              Cardinality({commits[i].repository : i \in 1..Len(commits)}),
                            most_active_day |-> FindMostActiveDay(commits),
                            contribution_streak |-> CalculateStreak(commits)]),
                       LAMBDA activity :
                         Settle([s1 EXCEPT !.data = NcSet(@, ActivityKey, activity, SetTtl(0), now)],
                                t, Ok(activity))))

----------------------------------------------------------------------------
(* GitHubClient.getRepositoryStats                                         *)

StatsKey == <<"s", "t", "a", "t", "s", ":">> \o Username
RecentCount == 5

\* calculatePercentage, in hundredths of a percent:
\* Math.round((value / total) * 100 * 100) / 100, and 0 for total 0.
CalculatePercentage(value, total) ==
  IF total = 0 THEN 0 ELSE (value * 20000 + total) \div (2 * total)

RECURSIVE Sum(_, _)
Sum(seq, field) ==
  Once(seq, LAMBDA q :
    IF q = <<>> THEN 0 ELSE q[1][field] + Sum(SubSeq(q, 2, Len(q)), field))

\* A reduce in which the last of the repositories tied for the most wins.
RECURSIVE ReduceMostLastWins(_, _, _, _)
ReduceMostLastWins(repos, field, i, max) ==
  IF i > Len(repos) THEN max
  ELSE ReduceMostLastWins(repos, field, i + 1,
                          IF repos[i][field] >= (IF max.ty = "null" THEN 0 ELSE max.o[field])
                          THEN Obj(repos[i]) ELSE max)

\* repos.reduce((max, repo) => repo[field] > (max?.[field] || 0) ? repo : max,
\*              repos[0] || null)
RECURSIVE ReduceMost(_, _, _, _)
ReduceMost(repos, field, i, max) ==
  IF i > Len(repos) THEN max
  ELSE Once(IF repos[i][field] > (IF max.ty = "null" THEN 0 ELSE max.o[field])
            THEN Obj(repos[i]) ELSE max,
            LAMBDA next : ReduceMost(repos, field, i + 1, next))

Most(repos, field) ==
  ReduceMost(repos, field, 1, IF repos = <<>> THEN Null ELSE Obj(repos[1]))

\* The language map, in order of first appearance, as LanguageStats sorted
\* by count; repositories without a language are in no group.
LanguageStats(repos) ==
  Once(SelectSeq(repos, LAMBDA r : Truthy(r.language)), LAMBDA named :
    Once(Values(Distinct([i \in 1..Len(named) |-> named[i].language.s])), LAMBDA langs :
      LET of(l) == SelectSeq(named, LAMBDA r : r.language.s = l)
      IN  Sort([by |-> "count"],
               [k \in 1..Len(langs) |->
                  [language |-> langs[k],
                   count |-> Len(of(langs[k])),
                   repositories |-> [i \in 1..Len(of(langs[k])) |-> of(langs[k])[i].name],
                   percentage |-> CalculatePercentage(Len(of(langs[k])), Len(repos))]])))

StatsOf(list) ==
  Once(list, LAMBDA repos :
    Once(Sort([by |-> "updated"], repos), LAMBDA byUpdate :
      Obj([total_repositories |-> Len(repos),
           total_stars |-> Sum(repos, "stars"),
           total_forks |-> Sum(repos, "forks"),
           languages |-> LanguageStats(repos),
           most_starred_repo |-> Most(repos, "stars"),
           most_forked_repo |-> Most(repos, "forks"),
           recently_updated |-> SubSeq(byUpdate, 1, Min(RecentCount, Len(byUpdate))),
           total_open_issues |-> Sum(repos, "open_issues")])))

GetRepositoryStatsBegin(s, t) ==
  LET a == s.tasks[t].a
      cached == IF a.useCache THEN NcGetVal(s.data, StatsKey, now) ELSE Undefined
      s1 == IF a.useCache THEN [s EXCEPT !.data = NcGetData(@, StatsKey, now)] ELSE s
  IN  IF a.useCache /\ Truthy(cached) THEN Settle(s1, t, Ok(cached))
      ELSE LET c == NewId(s1)
           IN  Await(ListRepositoriesBegin(
                       Spawn(s1, t, "repos", "listRepositories", [useCache |-> a.useCache]),
                       c), t)

\* After await this.listRepositories: the statistics are computed, cached
\* and returned.
GetRepositoryStatsResume(s, t) ==
  LET out == s.tasks[Child(s, t, "repos")].out
      s1 == Reap(s, t)
  IN  IF out.st = "err" THEN Settle(s1, t, Err(HandleApiError(out.e)))
      ELSE Once(StatsOf(Items(s, out.v)), LAMBDA stats :
             Settle([s1 EXCEPT !.data = NcSet(@, StatsKey, stats, SetTtl(0), now)],
                    t, Ok(stats)))

----------------------------------------------------------------------------
(* GitHubClient.searchProjectsByTech                                       *)

FilterNames == <<"language", "topic", "min_stars", "sort_by", "order">>
NameChars == [language |-> <<"l", "a", "n", "g", "u", "a", "g", "e">>, topic |-> <<"t", "o", "p", "i", "c">>, min_stars |-> <<"m", "i", "n", "_", "s", "t", "a", "r", "s">>,
              sort_by |-> <<"s", "o", "r", "t", "_", "b", "y">>, order |-> <<"o", "r", "d", "e", "r">>]

Quoted(str) == <<"\"">> \o str \o <<"\"">>

\* JSON.stringify(filters): the properties that are not undefined, in the
\* order the client's arguments list them (here always the same order).
RECURSIVE JsonFields(_, _, _)
JsonFields(filters, i, first) ==
  IF i > Len(FilterNames) THEN <<>>
  ELSE LET v == filters[FilterNames[i]]
       IN  IF v.ty = "undefined" THEN JsonFields(filters, i + 1, first)
           ELSE (IF first THEN <<>> ELSE <<",">>)
                \o Quoted(NameChars[FilterNames[i]]) \o <<":">>
                \o (IF v.ty = "number" THEN Digits(v.n) ELSE Quoted(v.s))
                \o JsonFields(filters, i + 1, FALSE)

JsonStringify(filters) == <<"{">> \o JsonFields(filters, 1, TRUE) \o <<"}">>

SearchKey(filters) == <<"s", "e", "a", "r", "c", "h", ":">> \o Username \o <<":">> \o JsonStringify(filters)

MatchesAbove(filters, repo) ==
  /\ Truthy(filters.language) =>
       /\ repo.language.ty = "string"
       /\ ToLowerCase(repo.language.s) = ToLowerCase(filters.language.s)
  /\ Truthy(filters.topic) =>
       \E i \in 1..Len(repo.topics) :
         Includes(ToLowerCase(repo.topics[i]), ToLowerCase(filters.topic.s))
  /\ filters.min_stars.ty # "undefined" => repo.stars > filters.min_stars.n

\* The three filters, each applied only if it is supplied.
Matches(filters, repo) ==
  /\ Truthy(filters.language) =>
       /\ repo.language.ty = "string"
       /\ ToLowerCase(repo.language.s) = ToLowerCase(filters.language.s)
  /\ Truthy(filters.topic) =>
       \E i \in 1..Len(repo.topics) :
         Includes(ToLowerCase(repo.topics[i]), ToLowerCase(filters.topic.s))
  /\ filters.min_stars.ty # "undefined" => repo.stars >= filters.min_stars.n

\* Whether a filter ran, so that repos is a new array and no longer the one
\* listRepositories returned.
Filtered(filters) ==
  Truthy(filters.language) \/ Truthy(filters.topic) \/ filters.min_stars.ty # "undefined"

SearchProjectsByTechBegin(s, t) ==
  LET a == s.tasks[t].a
      key == SearchKey(a.filters)
      cached == IF a.useCache THEN NcGetVal(s.data, key, now) ELSE Undefined
      s1 == IF a.useCache THEN [s EXCEPT !.data = NcGetData(@, key, now)] ELSE s
  IN  IF a.useCache /\ Truthy(cached) THEN Settle(s1, t, Ok(cached))
      ELSE LET c == NewId(s1)
           IN  Await(ListRepositoriesBegin(
                       Spawn(s1, t, "repos", "listRepositories", [useCache |-> a.useCache]),
                       c), t)

\* After await this.listRepositories: filter, sort in place, cache, return.
\* Without a filter the array sorted in place, and then cached under the
\* search key, is the very array listRepositories returned.
SearchProjectsByTechResume(s, t, tie) ==
  LET filters == s.tasks[t].a.filters
      out == s.tasks[Child(s, t, "repos")].out
      s1 == Reap(s, t)
  IN  IF out.st = "err" THEN Settle(s1, t, Err(HandleApiError(out.e)))
      ELSE LET kept == SelectSeq(Items(s, out.v), LAMBDA repo : Matches(filters, repo))
               sorted == IF Truthy(filters.sort_by)
                         THEN Sort([by |-> "search", key |-> filters.sort_by,
                                    order |-> filters.order, tie |-> tie], kept)
                         ELSE kept
               repos == IF Filtered(filters) THEN Arr(sorted) ELSE out.v
               s2 == IF Filtered(filters) THEN s1
                     ELSE [s1 EXCEPT !.heap[out.v.r] = sorted]
               s3 == [s2 EXCEPT !.data = NcSet(@, SearchKey(filters), repos, SetTtl(0), now)]
           IN  Settle(s3, t, Ok(repos))

----------------------------------------------------------------------------
(* The tools get_recent_commits, get_repository_stats,                     *)
(* search_projects_by_tech and get_contribution_activity: each calls the   *)
(* client inside try and wraps the result or the failure.                  *)

DefaultLimit == 50

CommitsArgs(repository_name, limit, use_cache) ==
  Obj([repository_name |-> repository_name, limit |-> limit, use_cache |-> use_cache])
NoCommitsArgs == CommitsArgs(Undefined, Undefined, Undefined)

CacheArgs(use_cache) == Obj([use_cache |-> use_cache])
NoCacheArgs == CacheArgs(Undefined)

SearchArgs(language, topic, min_stars, sort_by, order, use_cache) ==
  Obj([language |-> language, topic |-> topic, min_stars |-> min_stars,
       sort_by |-> sort_by, order |-> order, use_cache |-> use_cache])
NoSearchArgs == SearchArgs(Undefined, Undefined, Undefined, Undefined, Undefined, Undefined)

\* return { success: true, data, cached: use_cache, ... } or the catch
ToolResume(s, t, slot, code, failed) ==
  LET out == s.tasks[Child(s, t, slot)].out
      s1 == Reap(s, t)
  IN  IF out.st = "err" THEN Settle(s1, t, Ok(Failure(code, failed \o out.e)))
      ELSE Settle(s1, t, Ok(Success(out.v, UseCacheOf(s.tasks[t].a))))

ToolRecentCommitsBegin(s, t) ==
  LET args == s.tasks[t].a
      c == NewId(s)
  IN  Await(GetRecentCommitsBegin(
              Spawn(s, t, "commits", "getRecentCommits",
                    [repoName |-> args.o.repository_name,
                     limit |-> IF args.o.limit.ty = "undefined" THEN DefaultLimit
                               ELSE args.o.limit.n,
                     useCache |-> UseCacheOf(args)]), c), t)

ToolRecentCommitsResume(s, t) ==
  ToolResume(s, t, "commits", Code.get_recent_commits, FailedTo.get_recent_commits)

ToolRepositoryStatsBegin(s, t) ==
  LET c == NewId(s)
  IN  Await(GetRepositoryStatsBegin(
              Spawn(s, t, "stats", "getRepositoryStats",
                    [useCache |-> UseCacheOf(s.tasks[t].a)]), c), t)

ToolRepositoryStatsResume(s, t) ==
  ToolResume(s, t, "stats", Code.get_repository_stats, FailedTo.get_repository_stats)

\* const { use_cache = true, ...filters } = args
ToolSearchBegin(s, t) ==
  LET args == s.tasks[t].a
      c == NewId(s)
  IN  Await(SearchProjectsByTechBegin(
              Spawn(s, t, "repos", "searchProjectsByTech",
                    [filters |-> [n \in {FilterNames[i] : i \in 1..Len(FilterNames)} |->
                                    args.o[n]],
                     useCache |-> UseCacheOf(args)]), c), t)

ToolSearchResume(s, t) ==
  ToolResume(s, t, "repos", Code.search_projects_by_tech, FailedTo.search_projects_by_tech)

ToolActivityBegin(s, t) ==
  LET c == NewId(s)
  IN  Await(GetContributionActivityBegin(
              Spawn(s, t, "activity", "getContributionActivity",
                    [useCache |-> UseCacheOf(s.tasks[t].a)]), c), t)

ToolActivityResume(s, t) ==
  ToolResume(s, t, "activity", Code.get_contribution_activity, FailedTo.get_contribution_activity)

----------------------------------------------------------------------------
(* Tool get_skills_matrix                                                  *)

TopCount == 5

\* Up to the await: listRepositories and getRepositoryStats are called one
\* after the other and Promise.all waits for both.
ToolSkillsBegin(s, t) ==
  LET use_cache == UseCacheOf(s.tasks[t].a)
      s1 == ListRepositoriesBegin(
              Spawn(s, t, "repos", "listRepositories", [useCache |-> use_cache]), NewId(s))
      s2 == GetRepositoryStatsBegin(
              Spawn(s1, t, "stats", "getRepositoryStats", [useCache |-> use_cache]), NewId(s1))
  IN  Await(s2, t)

\* After Promise.all: a rejection is caught and wrapped; otherwise the
\* matrix is put together. Of the matrix the model keeps the project count,
\* the top languages, the project named for Git and the stars of the summary.
ToolSkillsResume(s, t) ==
  LET s1 == Reap(s, t)
      failed == {c \in Children(s, t) : s.tasks[c].out.st = "err"}
  IN  IF failed # {}
      THEN Settle(s1, t, Ok(Failure(Code.get_skills_matrix,
                                    FailedTo.get_skills_matrix
                                    \o s.tasks[CHOOSE c \in failed : TRUE].out.e)))
      ELSE LET repos == Items(s, s.tasks[Child(s, t, "repos")].out.v)
               stats == s.tasks[Child(s, t, "stats")].out.v.o
               matrix ==
                 Obj([total_projects |-> Len(repos),
                      top_languages |->
                        [i \in 1..Min(TopCount, Len(stats.languages)) |->
                           [language |-> stats.languages[i].language,
                            percentage |-> stats.languages[i].percentage,
                            projects |-> stats.languages[i].count]],
                      git_projects |->
                        IF repos = <<>>
                        THEN <<<<"A", "l", "l", " ", "P", "r", "o", "j", "e", "c", "t", "s">>>>
                        ELSE <<repos[1].name>>,
                      total_stars |-> stats.total_stars])
           IN  Settle(s1, t, Ok(Success(matrix, UseCacheOf(s.tasks[t].a))))

----------------------------------------------------------------------------
(* Tool generate_portfolio_summary                                         *)

PrimaryCount == 5
OwnName == <<"G", "i", "t", "I", "n", "s", "i", "g", "h", "t", "-", "M", "C", "P">>
FeaturedCount == 4

\* Up to the await: the three client calls are made one after the other,
\* each running to its own first await, and Promise.all waits for them.
ToolPortfolioBegin(s, t) ==
  LET use_cache == UseCacheOf(s.tasks[t].a)
      s1 == ListRepositoriesBegin(
              Spawn(s, t, "repos", "listRepositories", [useCache |-> use_cache]), NewId(s))
      s2 == GetRepositoryStatsBegin(
              Spawn(s1, t, "stats", "getRepositoryStats", [useCache |-> use_cache]), NewId(s1))
      s3 == GetContributionActivityBegin(
              Spawn(s2, t, "activity", "getContributionActivity", [useCache |-> use_cache]),
              NewId(s2))
  IN  Await(s3, t)

\* After Promise.all: a rejection is caught and wrapped; otherwise the
\* summary is put together from the list, the statistics and the activity.
ToolPortfolioResume(s, t) ==
  LET s1 == Reap(s, t)
      failed == {c \in Children(s, t) : s.tasks[c].out.st = "err"}
  IN  IF failed # {}
      THEN Settle(s1, t, Ok(Failure(Code.generate_portfolio_summary,
                                    FailedTo.generate_portfolio_summary
                                    \o s.tasks[CHOOSE c \in failed : TRUE].out.e)))
      ELSE LET repos == Items(s, s.tasks[Child(s, t, "repos")].out.v)
               stats == s.tasks[Child(s, t, "stats")].out.v.o
               activity == s.tasks[Child(s, t, "activity")].out.v.o
               own == SelectSeq(repos, LAMBDA r : r.name = OwnName)
               topProjects ==
                 Sort([by |-> "list", key |-> SortBy.stars],
                      SelectSeq(repos, LAMBDA r : r.stars > 0 /\ r.name # OwnName))
               summary ==
                 Obj([own_stars |-> IF own = <<>> THEN 0 ELSE own[1].stars,
                      featured_projects |->
                        SubSeq(topProjects, 1, Min(FeaturedCount, Len(topProjects))),
                      primary_languages |->
                        [i \in 1..Min(PrimaryCount, Len(stats.languages)) |->
                           stats.languages[i].language],
                      languages |-> Len(stats.languages),
                      total_repositories |-> Len(repos),
                      total_stars |-> stats.total_stars,
                      total_contributions |-> activity.total_commits,
                      repositories_contributed_to |-> activity.repositories_contributed_to,
                      active_streak |-> activity.contribution_streak])
           IN  Settle(s1, t, Ok(Success(summary, UseCacheOf(s.tasks[t].a))))

----------------------------------------------------------------------------
(* GitHubClient.getRateLimit                                               *)

RateLimitKey == <<"r", "a", "t", "e", ":">> \o Username

GetRateLimitGotCaching(s, t, outcome, rate) ==
  IF ~outcome.ok THEN Settle(s, t, Err(HandleApiError(outcome.msg)))
  ELSE Settle([s EXCEPT !.data = NcSet(@, RateLimitKey, Obj(rate), SetTtl(0), now)],
              t, Ok(Obj(rate)))

\* Up to the await: the request, with no cache check before it.
GetRateLimitBegin(s, t) == Request(s, t, "rateLimit", NoLocals)

\* rateLimit.get answers with the rate, or fails.
GetRateLimitGot(s, t, outcome, rate) ==
  IF ~outcome.ok THEN Settle(s, t, Err(HandleApiError(outcome.msg)))
  ELSE Settle(s, t, Ok(Obj(rate)))

----------------------------------------------------------------------------
(* The CallToolRequestSchema handler.                                      *)

\* JSON.stringify(result): the text holds the arrays' elements as they are
\* at this moment.
Stringify(s, result) ==
  IF result.o.success /\ result.o.data.ty = "ref"
  THEN [result.o EXCEPT !.data = Arr(s.heap[result.o.data.r])]
  ELSE result.o

Content(text) == Obj([content |-> text, isError |-> FALSE])

\* The handler's own catch.
ErrorContent(message) ==
  Obj([content |-> [success |-> FALSE,
                    error |-> [error |-> Code.CallTool, message |-> message,
                               timestamp |-> now]],
       isError |-> TRUE])

\* args || {}
OrEmpty(args, empty) == IF Truthy(args) THEN args ELSE empty

\* The switch over the tool's name, up to the await of the tool. Every tool
\* but get_repository_details gets {} in place of missing arguments.
CallToolBegin(s, t) ==
  LET name == s.tasks[t].a.name
      args == s.tasks[t].a.args
      c == NewId(s)
      tool(fn, a) == Spawn(s, t, "tool", fn, a)
  IN  CASE name = ToolName.list_repositories ->
             Await(ToolListRepositoriesBegin(
                     tool("list_repositories", OrEmpty(args, NoListArgs)), c), t)
        [] name = ToolName.get_repository_details ->
             Await(ToolRepositoryDetailsBegin(tool("get_repository_details", args), c), t)
        [] name = ToolName.get_recent_commits ->
             Await(ToolRecentCommitsBegin(
                     tool("get_recent_commits", OrEmpty(args, NoCommitsArgs)), c), t)
        [] name = ToolName.get_repository_stats ->
             Await(ToolRepositoryStatsBegin(
                     tool("get_repository_stats", OrEmpty(args, NoCacheArgs)), c), t)
        [] name = ToolName.search_projects_by_tech ->
             Await(ToolSearchBegin(
                     tool("search_projects_by_tech", OrEmpty(args, NoSearchArgs)), c), t)
        [] name = ToolName.get_contribution_activity ->
             Await(ToolActivityBegin(
                     tool("get_contribution_activity", OrEmpty(args, NoCacheArgs)), c), t)
        [] name = ToolName.get_skills_matrix ->
             Await(ToolSkillsBegin(
                     tool("get_skills_matrix", OrEmpty(args, NoCacheArgs)), c), t)
        [] name = ToolName.generate_portfolio_summary ->
             Await(ToolPortfolioBegin(
                     tool("generate_portfolio_summary", OrEmpty(args, NoCacheArgs)), c), t)
        [] OTHER -> Settle(s, t, Ok(ErrorContent(Msg.unknownTool \o name)))

\* After await of the tool: the envelope is serialised.
CallToolResume(s, t) ==
  LET out == s.tasks[Child(s, t, "tool")].out
      s1 == Reap(s, t)
  IN  IF out.st = "ok" THEN Settle(s1, t, Ok(Content(Stringify(s, out.v))))
      ELSE Settle(s1, t, Ok(ErrorContent(out.e)))

----------------------------------------------------------------------------
(* The ReadResourceRequestSchema handler.                                  *)

\* The switch over the uri, up to the first await: the profile is a fixed
\* text, the resume awaits the statistics, outside any try block; any other
\* uri throws.
ReadResourceBegin(s, t) ==
  LET uri == s.tasks[t].a.uri
      c == NewId(s)
  IN  IF uri = Uri.profile
      THEN Settle(s, t, Ok(Obj([uri |-> uri, text |-> [profile |-> TRUE]])))
      ELSE IF uri = Uri.resume
      THEN Await(GetRepositoryStatsBegin(
                   Spawn(s, t, "stats", "getRepositoryStats", [useCache |-> TRUE]), c), t)
      ELSE Settle(s, t, Err(Msg.unknownResource \o uri))

\* After await githubClient.getRepositoryStats(): the resume is rendered
\* from the statistics; a rejection of the awaited call is not caught.
ReadResourceResume(s, t) ==
  LET out == s.tasks[Child(s, t, "stats")].out
      s1 == Reap(s, t)
  IN  IF out.st = "err" THEN Settle(s1, t, Err(out.e))
      ELSE LET stats == out.v.o
               top(n) == [i \in 1..Min(n, Len(stats.languages)) |-> stats.languages[i].language]
           IN  Settle(s1, t,
                      Ok(Obj([uri |-> s.tasks[t].a.uri,
                              text |-> [total_repositories |-> stats.total_repositories,
                                        total_stars |-> stats.total_stars,
                                        total_forks |-> stats.total_forks,
                                        languages |-> Len(stats.languages),
                                        summary |-> top(3),
                                        skills |-> top(6),
                                        featured |-> stats.recently_updated]])))

----------------------------------------------------------------------------
(* Actions.                                                                *)

Roots(s) == {t \in Live(s) : s.tasks[t].parent = 0}

CanDeliver ==
  /\ nroot < cfg.maxCalls
  /\ Cardinality(Roots(St)) < cfg.maxActive
  /\ Quiescent(St)

\* A tools/call request arrives.
CallTool(name, args) ==
  /\ CanDeliver
  /\ LET s0 == Deliver(St)
     IN  Apply(CallToolBegin(Spawn(s0, 0, "", "CallTool", [name |-> name, args |-> args]),
                             NewId(s0)))

Suspended(t, fn, pc) ==
  /\ t \in Live(St)
  /\ tasks[t].fn = fn
  /\ tasks[t].pc = pc
  /\ Quiescent(St)

Resumable(t, fn) ==
  /\ Ready(St, t)
  /\ tasks[t].fn = fn

\* Octokit answers a listForUser request.
ListRepositoriesResponse(t, outcome) ==
  /\ Suspended(t, "listRepositories", "http")
  /\ Apply(ListRepositoriesPage(St, t, outcome))

ToolListRepositoriesDone(t) ==
  /\ Resumable(t, "list_repositories")
  /\ Apply(ToolListRepositoriesResume(St, t))

CallToolDone(t) ==
  /\ Resumable(t, "CallTool")
  /\ Apply(CallToolResume(St, t))

\* A resources/read request arrives.
ReadResource(uri) ==
  /\ CanDeliver
  /\ LET s0 == Deliver(St)
     IN  Apply(ReadResourceBegin(Spawn(s0, 0, "", "ReadResource", [uri |-> uri]), NewId(s0)))

\* An Octokit request of task t is answered with outcome; it can succeed
\* only if what it asks for exists.
Answered(t, fn, api, outcome) ==
  /\ Suspended(t, fn, "http")
  /\ tasks[t].req.api = api
  /\ outcome.ok => Servable(tasks[t].req)

RepositoryDetailsResponse(t, outcome) ==
  /\ Answered(t, "getRepositoryDetails", "get", outcome)
  /\ Apply(GetRepositoryDetailsGot(St, t, outcome))

TopicsResponse(t, outcome) ==
  /\ Answered(t, "getRepositoryDetails", "getAllTopics", outcome)
  /\ Apply(GetRepositoryDetailsTopics(St, t, outcome))

ReadmeResponse(t, outcome) ==
  /\ Answered(t, "getRepositoryReadme", "getReadme", outcome)
  /\ Apply(GetRepositoryReadmeGot(St, t, outcome))

CommitsResponse(t, outcome) ==
  /\ Answered(t, "getRecentCommits", "listCommits", outcome)
  /\ Apply(GetRecentCommitsGot(St, t, outcome))

\* One request of a fan-out is answered.
FanResponse(t, i, outcome) ==
  /\ Suspended(t, "getRecentCommits", "fan")
  /\ i \in tasks[t].l.pending
  /\ Apply(GetRecentCommitsFanGot(St, t, i, outcome))

RecentCommitsFanOut(t) ==
  /\ Resumable(t, "getRecentCommits")
  /\ Apply(GetRecentCommitsFan(St, t))

RepositoryStatsDone(t) ==
  /\ Resumable(t, "getRepositoryStats")
  /\ Apply(GetRepositoryStatsResume(St, t))

SearchDone(t, tie) ==
  /\ Resumable(t, "searchProjectsByTech")
  /\ Apply(SearchProjectsByTechResume(St, t, tie))

ActivityDone(t) ==
  /\ Resumable(t, "getContributionActivity")
  /\ Apply(GetContributionActivityResume(St, t))

ToolRepositoryDetailsDone(t) ==
  /\ Resumable(t, "get_repository_details")
  /\ Apply(ToolRepositoryDetailsResume(St, t))

ToolRecentCommitsDone(t) ==
  /\ Resumable(t, "get_recent_commits")
  /\ Apply(ToolRecentCommitsResume(St, t))

ToolRepositoryStatsDone(t) ==
  /\ Resumable(t, "get_repository_stats")
  /\ Apply(ToolRepositoryStatsResume(St, t))

ToolSearchDone(t) ==
  /\ Resumable(t, "search_projects_by_tech")
  /\ Apply(ToolSearchResume(St, t))

ToolActivityDone(t) ==
  /\ Resumable(t, "get_contribution_activity")
  /\ Apply(ToolActivityResume(St, t))

ToolSkillsDone(t) ==
  /\ Resumable(t, "get_skills_matrix")
  /\ Apply(ToolSkillsResume(St, t))

ToolPortfolioDone(t) ==
  /\ Resumable(t, "generate_portfolio_summary")
  /\ Apply(ToolPortfolioResume(St, t))

\* githubClient.getRateLimit() is called, as main does at start.
GetRateLimit ==
  /\ CanDeliver
  /\ LET s0 == Deliver(St)
     IN  Apply(GetRateLimitBegin(Spawn(s0, 0, "", "getRateLimit", NoLocals), NewId(s0)))

RateLimitResponse(t, outcome, rate) ==
  /\ Answered(t, "getRateLimit", "rateLimit", outcome)
  /\ Apply(GetRateLimitGot(St, t, outcome, rate))

ReadResourceDone(t) ==
  /\ Resumable(t, "ReadResource")
  /\ Apply(ReadResourceResume(St, t))

\* The clock moves on, while the server is idle and has requests to come.
Advance ==
  /\ now < MaxClock
  /\ nroot < cfg.maxCalls
  /\ Roots(St) = {}
  /\ now' = now + 1
  /\ UNCHANGED <<data, calls, ret, server>>

\* NodeCache's periodic sweep, a timer callback.
ServerSweep ==
  /\ Roots(St) = {}
  /\ data' = NcSweep(data, now)
  /\ UNCHANGED <<now, calls, ret, server>>

TaskIds == 1..Len(tasks)
Outcomes == {HttpOk} \cup {HttpFail(m) : m \in ApiErrors}

NoReturn == [op |-> "none"]

----------------------------------------------------------------------------
(* SpecPages: list_repositories against a remote of up to MaxRepos         *)
(* repositories.                                                           *)

MaxRepos == 201
PagesCalls == 1

\* The i-th of the remote's repositories, most recently updated first.
ManyRepo(i) ==
  [name |-> <<"r">> \o Digits(i),
   full_name |-> Username \o <<"/", "r">> \o Digits(i),
   description |-> Null,
   html_url |-> <<"/">> \o Username \o <<"/", "r">> \o Digits(i),
   stargazers_count |-> i % 3,
   forks_count |-> i % 2,
   language |-> IF i % 2 = 0 THEN Null ELSE Str(<<"G", "o">>),
   topics |-> IF i % 3 = 0 THEN Undefined ELSE Arr(<<>>),
   updated_at |-> MaxRepos + 1 - i,
   created_at |-> i,
   open_issues_count |-> 0,
   homepage |-> Null]

ListArgs(use_cache, sort_by, limit) ==
  Obj([use_cache |-> use_cache, sort_by |-> sort_by, limit |-> limit])

InitServer ==
  /\ now = 0
  /\ data = EmptyCache
  /\ calls = <<>>
  /\ ret = NoReturn
  /\ heap = <<>>
  /\ tasks = <<>>
  /\ reqlog = <<>>
  /\ nroot = 0

InitPages ==
  /\ InitServer
  /\ \E n \in 0..MaxRepos : remote = [repos |-> [i \in 1..n |-> ManyRepo(i)],
                                    readme |-> <<>>, commits |-> <<>>]
  /\ cfg = [maxCalls |-> PagesCalls, maxActive |-> 1]

NextPages ==
  \/ \E uc \in {Undefined, Bool(TRUE), Bool(FALSE)} :
       CallTool(ToolName.list_repositories, ListArgs(uc, Undefined, Undefined))
  \/ \E t \in TaskIds, outcome \in Outcomes : ListRepositoriesResponse(t, outcome)
  \/ \E t \in TaskIds : ToolListRepositoriesDone(t)
  \/ \E t \in TaskIds : CallToolDone(t)

SpecPages == InitPages /\ [][NextPages]_vars

\* The listForUser requests of one call, in the order they were issued.
PageRequests(root) ==
  SelectSeq(reqlog, LAMBDA e : e.root = root /\ e.api = "listForUser")

\* An invocation of listRepositories that fetched the list and has just
\* returned it.
Fetched(t) ==
  /\ t \in Live(St)
  /\ tasks[t].fn = "listRepositories"
  /\ tasks[t].pc = "settled"
  /\ tasks[t].out.st = "ok"
  /\ tasks[t].l # NoLocals

\* C4: an uncached listRepositories against a remote of N repositories
\* requests the pages 1, 2, ... of size 100 in order, the last one being the
\* first page of fewer than 100 entries, and returns N normalised records in
\* the remote's order; for N = 150 that is 2 requests and 150 records.
C4_Pagination ==
  \A t \in TaskIds :
    Fetched(t) =>
      LET n == Len(remote.repos)
          reqs == PageRequests(tasks[t].root)
          list == heap[tasks[t].out.v.r]
      IN  /\ Len(reqs) = (n \div 100) + 1
          /\ \A i \in 1..Len(reqs) : reqs[i].arg = [page |-> i, per_page |-> 100]
          /\ Len(list) = n
          /\ \A i \in 1..n :
               /\ list[i].name = remote.repos[i].name
               /\ list[i].url = remote.repos[i].html_url
               /\ list[i].stars = remote.repos[i].stargazers_count
               /\ list[i].last_updated = remote.repos[i].updated_at
          /\ (n = 150 => Len(reqs) = 2 /\ Len(list) = 150)

\* 150 repositories have been fetched in two pages.
C4_TwoPages ==
  \E t \in TaskIds :
    /\ Fetched(t)
    /\ Len(remote.repos) = 150
    /\ Len(PageRequests(tasks[t].root)) = 2
    /\ Len(heap[tasks[t].out.v.r]) = 150

----------------------------------------------------------------------------
(* Spec: the server with a small account behind it, requests handled one   *)
(* at a time, the clock moving between and during them.                    *)

MaxCalls == 2

Date(ts) == [ty |-> "date", ts |-> ts]

Repo(name, stars, forks, language, topics, updated_at) ==
  [name |-> name,
   full_name |-> Username \o <<"/">> \o name,
   description |-> Null,
   html_url |-> <<"/">> \o Username \o <<"/">> \o name,
   stargazers_count |-> stars,
   forks_count |-> forks,
   language |-> language,
   topics |-> topics,
   updated_at |-> updated_at,
   created_at |-> stars,
   open_issues_count |-> forks,
   homepage |-> Null]

Go == Str(<<"G", "o">>)
Python == Str(<<"P", "y", "t", "h", "o", "n">>)
TopicApi == <<"a", "p", "i">>

RepoA == Repo(<<"a">>, 1, 0, Go, Arr(<<TopicApi>>), 2)
RepoB == Repo(<<"B">>, 2, 1, Null, Undefined, 1)

\* Two accounts: one whose README is an empty file, one with a README of
\* two characters and a commit that has no author.
SmallRemotes ==
  {[repos |-> <<RepoA, RepoB>>,
    readme |-> <<Str(<<>>), Null>>,
    commits |-> << <<[sha |-> 1, date |-> Date(5)], [sha |-> 2, date |-> Date(3)]>>,
                   <<[sha |-> 3, date |-> Date(4)]>> >>],
   [repos |-> <<RepoA, RepoB>>,
    readme |-> <<Str(<<"a", "G", "k", "=">>), Null>>,
    commits |-> << <<[sha |-> 1, date |-> Date(5)]>>,
                   <<[sha |-> 3, date |-> Undefined]>> >>]}

ToolCalls ==
  {[name |-> ToolName.get_repository_details, args |-> a] :
     a \in {Undefined, DetailsArgs(Str(<<"a">>), Undefined, Bool(TRUE)),
            DetailsArgs(Str(<<"z">>), Bool(FALSE), Undefined)}}
  \cup {[name |-> ToolName.get_repository_stats, args |-> a] : a \in {Undefined, CacheArgs(Bool(FALSE))}}
  \cup {[name |-> ToolName.list_repositories, args |-> Undefined],
        [name |-> <<"x">>, args |-> Undefined]}

Uris == {Uri.profile, Uri.resume, <<"x">>}

MainOutcomes == {HttpOk, HttpFail(Msg.network)}

Init ==
  /\ InitServer
  /\ remote \in SmallRemotes
  /\ cfg = [maxCalls |-> MaxCalls, maxActive |-> 1]

Next ==
  \/ \E c \in ToolCalls : CallTool(c.name, c.args)
  \/ \E uri \in Uris : ReadResource(uri)
  \/ \E t \in TaskIds, outcome \in MainOutcomes : ListRepositoriesResponse(t, outcome)
  \/ \E t \in TaskIds, outcome \in MainOutcomes : RepositoryDetailsResponse(t, outcome)
  \/ \E t \in TaskIds, outcome \in MainOutcomes : TopicsResponse(t, outcome)
  \/ \E t \in TaskIds, outcome \in MainOutcomes : ReadmeResponse(t, outcome)
  \/ \E t \in TaskIds : RepositoryStatsDone(t)
  \/ \E t \in TaskIds : ToolListRepositoriesDone(t)
  \/ \E t \in TaskIds : ToolRepositoryDetailsDone(t)
  \/ \E t \in TaskIds : ToolRepositoryStatsDone(t)
  \/ \E t \in TaskIds : CallToolDone(t)
  \/ \E t \in TaskIds : ReadResourceDone(t)
  \/ Advance
  \/ ServerSweep

Spec == Init /\ [][Next]_vars

----------------------------------------------------------------------------
(* The cache in front of the fetch operations, and failures at the         *)
(* server's boundary.                                                      *)

FetchOps ==
  {"listRepositories", "getRepositoryDetails", "getRepositoryReadme", "getRecentCommits",
   "getRepositoryStats", "searchProjectsByTech", "getContributionActivity"}

\* The cache key of an invocation of a fetch operation.
KeyOf(k) ==
  CASE k.fn = "listRepositories" -> ReposKey
    [] k.fn = "getRepositoryDetails" -> RepoKey(k.a.repoName)
    [] k.fn = "getRepositoryReadme" -> ReadmeKey(k.a.repoName)
    [] k.fn = "getRecentCommits" -> CommitsKey(k.a.repoName, k.a.limit)
    [] k.fn = "getRepositoryStats" -> StatsKey
    [] k.fn = "searchProjectsByTech" -> SearchKey(k.a.filters)
    [] k.fn = "getContributionActivity" -> ActivityKey

Unexpired(key) == key \in DOMAIN data /\ NcAlive(data[key], now)

\* Task t is an invocation of a fetch operation made in this step.
Called(t) ==
  /\ t \in 1..Len(tasks')
  /\ tasks'[t].fn \in FetchOps
  /\ (t > Len(tasks) \/ tasks[t].fn # tasks'[t].fn)

\* C2: a fetch operation called with use_cache = true while an unexpired
\* entry exists under its key returns that entry's value, whatever it is,
\* and issues no upstream request.
C2_CachedHit ==
  [][\A t \in 1..Len(tasks') :
       (Called(t) /\ tasks'[t].a.useCache /\ Unexpired(KeyOf(tasks'[t])))
       => (tasks'[t].pc = "settled" /\ tasks'[t].out = Ok(data[KeyOf(tasks'[t])].v))]_vars

\* The outcome of a request that named something the server has.
Served ==
  /\ ret.op # "none"
  /\ ret.op = "ReadResource" => ret.a.uri \in {Uri.profile, Uri.resume}

\* C6: no failure of an upstream call or of a derivation leaves a public
\* operation as a thrown error: what the transport gets is a result.
C6_NoEscape == Served => ret.out.st = "ok"

----------------------------------------------------------------------------
(* SpecSearch: listing and searching the small account.                    *)

SearchCalls ==
  {[name |-> ToolName.list_repositories, args |-> Undefined],
   [name |-> ToolName.search_projects_by_tech,
    args |-> SearchArgs(Undefined, Undefined, Undefined, SortBy.stars, Undefined, Undefined)],
   [name |-> ToolName.search_projects_by_tech,
    args |-> SearchArgs(Str(<<"g", "o">>), Undefined, Undefined, SortBy.name, OrderAsc, Undefined)],
   [name |-> ToolName.search_projects_by_tech, args |-> Undefined]}

NextSearch ==
  \/ \E c \in SearchCalls : CallTool(c.name, c.args)
  \/ \E t \in TaskIds, outcome \in MainOutcomes : ListRepositoriesResponse(t, outcome)
  \/ \E t \in TaskIds, tie \in {"keep", "swap"} : SearchDone(t, tie)
  \/ \E t \in TaskIds : ToolListRepositoriesDone(t)
  \/ \E t \in TaskIds : ToolSearchDone(t)
  \/ \E t \in TaskIds : CallToolDone(t)

SpecSearch == Init /\ [][NextSearch]_vars

----------------------------------------------------------------------------
(* SpecFilter: one search over accounts drawn from four kinds of           *)
(* repository.                                                             *)

FilterLen == 2

TopicWebApi == <<"W", "e", "b", "A", "p", "i">>

Letter(i) == <<LowerCase[i]>>

\* The i-th repository of an account, of one of four kinds.
Kind(k, i) ==
  CASE k = 1 -> Repo(Letter(i), 5, 0, Go, Arr(<<TopicApi>>), i)
    [] k = 2 -> Repo(Letter(i), 0, 0, Go, Undefined, i)
    [] k = 3 -> Repo(Letter(i), 10, 0, Python, Arr(<<TopicWebApi, TopicApi>>), i)
    [] k = 4 -> Repo(Letter(i), 1, 0, Null, Arr(<<>>), i)

Account(kinds) ==
  [repos |-> [i \in 1..Len(kinds) |-> Kind(kinds[i], i)],
   readme |-> [i \in 1..Len(kinds) |-> Null],
   commits |-> [i \in 1..Len(kinds) |-> <<>>]]

\* Languages Go, Go, Python with 5, 0 and 10 stars.
Scenario == <<1, 2, 3>>

FilterAccounts ==
  {Account(kinds) : kinds \in UNION {[1..n -> 1..4] : n \in 0..FilterLen} \cup {Scenario}}

FilterCalls ==
  {[name |-> ToolName.search_projects_by_tech,
    args |-> SearchArgs(language, topic, min_stars, Undefined, Undefined, Undefined)] :
     language \in {Undefined, Str(<<"g", "o">>), Str(<<>>)},
     topic \in {Undefined, Str(<<"A", "P", "I">>)},
     min_stars \in {Undefined, Num(0), Num(1)}}

InitFilter ==
  /\ InitServer
  /\ remote \in FilterAccounts
  /\ cfg = [maxCalls |-> PagesCalls, maxActive |-> 1]

NextFilter ==
  \/ \E c \in FilterCalls : CallTool(c.name, c.args)
  \/ \E t \in TaskIds : ListRepositoriesResponse(t, HttpOk)
  \/ \E t \in TaskIds, tie \in {"keep", "swap"} : SearchDone(t, tie)
  \/ \E t \in TaskIds : ToolSearchDone(t)
  \/ \E t \in TaskIds : CallToolDone(t)

SpecFilter == InitFilter /\ [][NextFilter]_vars

----------------------------------------------------------------------------
(* SpecStats: the statistics of accounts drawn from repositories in Go, in *)
(* Python and without a language.                                          *)

StatsLen == 4

StatsKind(k, i) ==
  CASE k = 1 -> Repo(Letter(i), i, 1, Go, Undefined, i)
    [] k = 2 -> Repo(Letter(i), 1, i, Python, Undefined, i)
    [] k = 3 -> Repo(Letter(i), 0, 0, Null, Undefined, i)

StatsAccounts ==
  {[repos |-> [i \in 1..Len(kinds) |-> StatsKind(kinds[i], i)],
    readme |-> [i \in 1..Len(kinds) |-> Null],
    commits |-> [i \in 1..Len(kinds) |-> <<>>]] :
     kinds \in UNION {[1..n -> 1..3] : n \in 0..StatsLen}}

InitStats ==
  /\ InitServer
  /\ remote \in StatsAccounts
  /\ cfg = [maxCalls |-> PagesCalls, maxActive |-> 1]

NextStats ==
  \/ \E uc \in {Undefined, Bool(FALSE)} : CallTool(ToolName.get_repository_stats, CacheArgs(uc))
  \/ \E t \in TaskIds, outcome \in MainOutcomes : ListRepositoriesResponse(t, outcome)
  \/ \E t \in TaskIds : RepositoryStatsDone(t)
  \/ \E t \in TaskIds : ToolRepositoryStatsDone(t)
  \/ \E t \in TaskIds : CallToolDone(t)

SpecStats == InitStats /\ [][NextStats]_vars

----------------------------------------------------------------------------
(* SpecStreak: calculateStreak on commit samples, in any order, as         *)
(* getContributionActivity hands them to it: every date parses, since      *)
(* findMostActiveDay has just read them all.                               *)

SampleLen == 3
MaxTick == 7

Samples ==
  UNION {[1..n -> {[sha |-> 0, date |-> Date(ts), repository |-> <<"a">>] : ts \in 0..MaxTick}] :
           n \in 0..SampleLen}

InitStreak ==
  /\ InitServer
  /\ \E sample \in Samples :
       remote = [repos |-> <<RepoA>>, readme |-> <<Null>>, commits |-> <<sample>>]
  /\ cfg = [maxCalls |-> 0, maxActive |-> 0]

\* this.calculateStreak(commits)
Streak ==
  /\ ret = NoReturn
  /\ ret' = [op |-> "calculateStreak", a |-> remote.commits[1],
             out |-> CalculateStreak(remote.commits[1])]
  /\ UNCHANGED <<now, data, calls, remote, heap, tasks, reqlog, nroot, cfg>>

NextStreak == Streak

SpecStreak == InitStreak /\ [][NextStreak]_vars

----------------------------------------------------------------------------
(* SpecFanOut: recent commits across an account of up to ManyRepos         *)
(* repositories, listed before or after a search has sorted the list.      *)

ManyRepos == 12

\* The i-th repository; the star counts are all different and not in the
\* order of the list. The first repository has a commit.
FanRepo(i) == Repo(<<"r">> \o Digits(i), (i * 5) % 17, 0, Null, Undefined, i)

FanAccount(n) ==
  [repos |-> [i \in 1..n |-> FanRepo(i)],
   readme |-> [i \in 1..n |-> Null],
   commits |-> [i \in 1..n |-> IF i = 1 THEN <<[sha |-> i, date |-> Date(i)]>> ELSE <<>>]]

FanCalls ==
  {[name |-> ToolName.get_recent_commits, args |-> Undefined],
   [name |-> ToolName.get_recent_commits, args |-> CommitsArgs(Str(<<"r", "1">>), Num(1), Undefined)],
   [name |-> ToolName.search_projects_by_tech,
    args |-> SearchArgs(Undefined, Undefined, Undefined, SortBy.stars, Undefined, Undefined)]}

InitFanOut ==
  /\ InitServer
  /\ \E n \in 0..ManyRepos : remote = FanAccount(n)
  /\ cfg = [maxCalls |-> MaxCalls, maxActive |-> 1]

NextFanOut ==
  \/ \E c \in FanCalls : CallTool(c.name, c.args)
  \/ \E t \in TaskIds : ListRepositoriesResponse(t, HttpOk)
  \/ \E t \in TaskIds, outcome \in MainOutcomes : CommitsResponse(t, outcome)
  \/ \E t \in TaskIds, i \in 1..ManyRepos, outcome \in MainOutcomes : FanResponse(t, i, outcome)
  \/ \E t \in TaskIds : RecentCommitsFanOut(t)
  \/ \E t \in TaskIds, tie \in {"keep", "swap"} : SearchDone(t, tie)
  \/ \E t \in TaskIds : ToolRecentCommitsDone(t)
  \/ \E t \in TaskIds : ToolSearchDone(t)
  \/ \E t \in TaskIds : CallToolDone(t)

SpecFanOut == InitFanOut /\ [][NextFanOut]_vars

----------------------------------------------------------------------------
(* The fan-out of getRecentCommits.                                        *)

\* The listCommits requests of one call, in the order they were issued.
CommitRequests(root) ==
  SelectSeq(reqlog, LAMBDA e : e.root = root /\ e.api = "listCommits")

\* In this step task t, back from listRepositories, sends out its requests.
FansOut(t) ==
  /\ t \in 1..Len(tasks)
  /\ tasks[t].fn = "getRecentCommits"
  /\ tasks[t].pc = "await"
  /\ t \in 1..Len(tasks')
  /\ tasks'[t].pc = "fan"

\* C5: a getRecentCommits call without a repository name asks for the
\* commits of the first 10 entries of the repository list, in the order the
\* list has when the call reads it, once each, and no call ever has more
\* than 10 commit-list requests, however many repositories there are.
C5_FanOutCap ==
  /\ [](\A root \in 1..nroot :
          LET reqs == CommitRequests(root)
          IN  /\ Len(reqs) <= 10
              /\ \A i, j \in 1..Len(reqs) : reqs[i].arg.repo = reqs[j].arg.repo => i = j)
  /\ [][\A t \in 1..Len(tasks) :
          FansOut(t) =>
            LET list == Items(St, tasks[Child(St, t, "repos")].out.v)
                sent == SubSeq(reqlog', Len(reqlog) + 1, Len(reqlog'))
            IN  /\ Len(sent) = Min(10, Len(list))
                /\ \A i \in 1..Len(sent) :
                     /\ sent[i].api = "listCommits"
                     /\ sent[i].arg.repo = list[i].name]_vars

\* Twelve repositories, the list no longer in the remote's order, and ten
\* requests out.
C5_TenOfTwelve ==
  \E t \in TaskIds :
    /\ tasks[t].fn = "getRecentCommits"
    /\ tasks[t].pc = "fan"
    /\ Len(remote.repos) = 12
    /\ Len(CommitRequests(tasks[t].root)) = 10
    /\ tasks[t].l.names # [i \in 1..10 |-> remote.repos[i].name]

----------------------------------------------------------------------------
(* The cached repository list.                                             *)

\* C7: the cached repository list has the elements, in the order, it was
\* stored with: those of the remote, which here never changes.
C7_CachedListIntact ==
  ReposKey \in DOMAIN data => Items(St, data[ReposKey].v) = Metadata(remote.repos)

----------------------------------------------------------------------------
(* calculateStreak                                                         *)

DaysOf(sample) == {DayOf(sample[i].date) : i \in 1..Len(sample)}

Newest(days) == CHOOSE d \in days : \A e \in days : e <= d

\* The length of the run of consecutive days that ends with the newest one.
RunBack(days) ==
  CHOOSE k \in 1..Cardinality(days) :
    /\ \A j \in 0..(k - 1) : Newest(days) - j \in days
    /\ Newest(days) - k \notin days

\* C8: calculateStreak gives 0 for no commits and otherwise the length of
\* the run of consecutive days that ends with the newest commit day, at
\* least 1 and at most the number of distinct days; three days in a row
\* give 3, two days with one between them missing give 1, one day gives 1.
C8_Streak ==
  ret.op = "calculateStreak" =>
    LET days == DaysOf(ret.a)
    IN  /\ ret.a = <<>> => ret.out = 0
        /\ ret.a # <<>> =>
             /\ ret.out = RunBack(days)
             /\ 1 <= ret.out /\ ret.out <= Cardinality(days)
             /\ \A d \in days :
                  /\ days = {d, d - 1, d - 2} => ret.out = 3
                  /\ days = {d, d - 2} => ret.out = 1
                  /\ days = {d} => ret.out = 1

\* Three commits on three days in a row, not in order of time: streak 3.
C8_ThreeInARow ==
  /\ ret.op = "calculateStreak"
  /\ Len(ret.a) = 3
  /\ DaysOf(ret.a) = {1, 2, 3}
  /\ DayOf(ret.a[1].date) = 2
  /\ ret.out = 3

----------------------------------------------------------------------------
(* The language breakdown.                                                 *)

\* The data of the successful result of the tool called name.
Succeeded(name) ==
  /\ ret.op = "CallTool"
  /\ ret.a.name = name
  /\ ret.out.v.o.content.success

\* C9: the percentages of the language breakdown sum to 100 within 0.1 when
\* there are repositories, and the breakdown is empty when there are none.
C9_PercentagesSum ==
  Succeeded(ToolName.get_repository_stats) =>
    LET stats == ret.out.v.o.content.data.o
        sum == Sum(stats.languages, "percentage")
    IN  /\ stats.total_repositories > 0 => (9990 <= sum /\ sum <= 10010)
        /\ stats.total_repositories = 0 => stats.languages = <<>>

----------------------------------------------------------------------------
(* The filters of searchProjectsByTech.                                    *)

\* What a search has to return: the repositories that pass every filter
\* that Supplied says is there.
Expected(args, Supplied(_)) ==
  SelectSeq(Metadata(remote.repos),
            LAMBDA repo :
              /\ Supplied(args.language) =>
                   /\ repo.language.ty = "string"
                   /\ ToLowerCase(repo.language.s) = ToLowerCase(args.language.s)
              /\ Supplied(args.topic) =>
                   \E i \in 1..Len(repo.topics) :
                     Includes(ToLowerCase(repo.topics[i]), ToLowerCase(args.topic.s))
              /\ Supplied(args.min_stars) => repo.stars >= args.min_stars.n)

Given(v) == v.ty # "undefined"

GivenNonEmpty(v) == v.ty # "undefined" /\ v # Str(<<>>)

\* C10 as stated: every filter the caller passes counts, the empty string
\* too.
C10_FiltersGiven ==
  Succeeded(ToolName.search_projects_by_tech) =>
    ret.out.v.o.content.data.items = Expected(ret.a.args.o, Given)

\* C10: a search returns exactly the repositories that pass every filter
\* supplied, a language or topic filter of "" counting as not supplied:
\* language equal ignoring case (null never matches), some topic containing
\* the topic filter ignoring case, stars >= min_stars, 0 included; Go, Go,
\* Python with 5, 0, 10 stars, language go and min_stars 1: the first only.
C10_FiltersSupplied ==
  Succeeded(ToolName.search_projects_by_tech) =>
    /\ ret.out.v.o.content.data.items = Expected(ret.a.args.o, GivenNonEmpty)
    /\ (/\ remote = Account(Scenario)
        /\ ret.a.args.o.language = Str(<<"g", "o">>)
        /\ ret.a.args.o.topic = Undefined
        /\ ret.a.args.o.min_stars = Num(1))
       => ret.out.v.o.content.data.items = <<Normalise(remote.repos[1])>>

\* The scenario's search has returned the first repository only.
C10_ScenarioFirstOnly ==
  /\ Succeeded(ToolName.search_projects_by_tech)
  /\ remote = Account(Scenario)
  /\ ret.a.args.o.language = Str(<<"g", "o">>)
  /\ ret.a.args.o.min_stars = Num(1)
  /\ Len(ret.out.v.o.content.data.items) = 1
  /\ ret.out.v.o.content.data.items[1].stars = 5

----------------------------------------------------------------------------
(* The order of results when no sort key is given.                         *)

\* The result of the latest call, a successful one, has no sort key in its
\* arguments.
Unsorted(name) ==
  /\ Succeeded(name)
  /\ (ret.a.args.ty = "undefined" \/ ~Truthy(ret.a.args.o.sort_by))

\* items is a subsequence of the fetched list, in fetch order (the names of
\* an account's repositories are all different).
InFetchOrder(items) ==
  /\ \A i \in 1..Len(items) :
       /\ RepoIndex(items[i].name) > 0
       /\ items[i] = Normalise(remote.repos[RepoIndex(items[i].name)])
  /\ \A i, j \in 1..Len(items) :
       i < j => RepoIndex(items[i].name) < RepoIndex(items[j].name)

\* C11: without a sort key, list_repositories and search_projects_by_tech
\* return their repositories in the order of the upstream fetch, a
\* subsequence of the fetched list, whatever tool calls came before (here
\* the remote never changes, so every fetch has the same order).
C11_FetchOrder ==
  /\ Unsorted(ToolName.list_repositories) =>
       InFetchOrder(ret.out.v.o.content.data.items)
  /\ Unsorted(ToolName.search_projects_by_tech) =>
       InFetchOrder(ret.out.v.o.content.data.items)

----------------------------------------------------------------------------
(* SpecOverlap: requests handled two at a time, and the portfolio summary, *)
(* whose three client calls run side by side.                              *)

OverlapRemote ==
  [repos |-> <<RepoA>>, readme |-> <<Null>>,
   commits |-> << <<[sha |-> 1, date |-> Date(5)]>> >>]

OverlapCalls ==
  {[name |-> ToolName.list_repositories, args |-> Undefined],
   [name |-> ToolName.get_repository_stats, args |-> Undefined],
   [name |-> ToolName.generate_portfolio_summary, args |-> Undefined]}

InitOverlap ==
  /\ InitServer
  /\ remote = OverlapRemote
  /\ cfg = [maxCalls |-> MaxCalls, maxActive |-> 2]

NextOverlap ==
  \/ \E c \in OverlapCalls : CallTool(c.name, c.args)
  \/ \E t \in TaskIds : ListRepositoriesResponse(t, HttpOk)
  \/ \E t \in TaskIds, i \in 1..FanOut : FanResponse(t, i, HttpOk)
  \/ \E t \in TaskIds : RecentCommitsFanOut(t)
  \/ \E t \in TaskIds : RepositoryStatsDone(t)
  \/ \E t \in TaskIds : ActivityDone(t)
  \/ \E t \in TaskIds : ToolListRepositoriesDone(t)
  \/ \E t \in TaskIds : ToolRepositoryStatsDone(t)
  \/ \E t \in TaskIds : ToolPortfolioDone(t)
  \/ \E t \in TaskIds : CallToolDone(t)

SpecOverlap == InitOverlap /\ [][NextOverlap]_vars

----------------------------------------------------------------------------
(* Overlapping invocations of one fetch operation.                         *)

\* The requests for the first page that invocation t of call root has in
\* the log.
OwnFirstPage(log, root, t) ==
  SelectSeq(log, LAMBDA e : e.root = root /\ e.task = t /\ e.api = "listForUser"
                            /\ e.arg.page = 1)

\* Invocations of listRepositories other than t that are suspended on their
\* upstream call after this step.
InFlightBeside(t) ==
  {u \in 1..Len(tasks') :
     u # t /\ tasks'[u].fn = "listRepositories" /\ tasks'[u].pc = "http"}

\* C12: an invocation of listRepositories that starts while another is
\* suspended on its upstream call and the list is not cached yet sees a
\* miss and issues a request of its own; every suspended invocation has its
\* own request in flight, so k overlapping misses are k upstream fetches;
\* and an invocation that fetched returns the array it built itself.
C12_DuplicateFetch ==
  /\ [][\A t \in 1..Len(tasks') :
          (Called(t) /\ tasks'[t].fn = "listRepositories" /\ ~Unexpired(ReposKey)
           /\ InFlightBeside(t) # {})
          => /\ tasks'[t].pc = "http"
             /\ Len(OwnFirstPage(reqlog', tasks'[t].root, t))
                = Len(OwnFirstPage(reqlog, tasks'[t].root, t)) + 1]_vars
  /\ [](\A t \in TaskIds :
          (tasks[t].fn = "listRepositories" /\ tasks[t].pc = "http")
          => \E i \in 1..Len(reqlog) :
               /\ reqlog[i].root = tasks[t].root
               /\ reqlog[i].task = t
               /\ reqlog[i].api = "listForUser"
               /\ reqlog[i].arg.page = tasks[t].l.page)
  /\ [][\A t \in TaskIds :
          (/\ tasks[t].fn = "listRepositories" /\ tasks[t].pc = "http"
           /\ t \in 1..Len(tasks') /\ tasks'[t].fn = "listRepositories"
           /\ tasks'[t].pc = "settled")
          => /\ Len(heap') = Len(heap) + 1
             /\ tasks'[t].out = Ok(ArrRef(Len(heap')))]_vars

\* Three invocations of listRepositories of one request, all three misses,
\* are suspended side by side, with three requests for page 1 in flight.
C12_ThreeInFlight ==
  \E root \in 1..nroot :
    LET waiting == {t \in TaskIds : /\ tasks[t].fn = "listRepositories"
                                    /\ tasks[t].pc = "http"
                                    /\ tasks[t].root = root}
    IN  /\ Cardinality(waiting) = 3
        /\ Len(SelectSeq(reqlog, LAMBDA e : e.root = root /\ e.api = "listForUser"
                                           /\ e.arg.page = 1)) = 3
        /\ ReposKey \notin DOMAIN data

----------------------------------------------------------------------------
(* SpecDetails: get_repository_details with the README, for a repository   *)
(* that has one, one that has none and one that does not exist.            *)

DetailsCalls ==
  {[name |-> ToolName.get_repository_details, args |-> a] :
     a \in {DetailsArgs(Str(<<"a">>), Undefined, Bool(TRUE)),
            DetailsArgs(Str(<<"B">>), Undefined, Bool(TRUE)),
            DetailsArgs(Str(<<"a">>), Bool(FALSE), Bool(TRUE)),
            DetailsArgs(Str(<<"z">>), Undefined, Undefined)}}

\* The upstream fails with "404" (also where the resource exists) or with
\* an error of no category.
DetailsOutcomes == {HttpOk, HttpFail(Msg.status404), HttpFail(Msg.network)}

NextDetails ==
  \/ \E c \in DetailsCalls : CallTool(c.name, c.args)
  \/ \E t \in TaskIds, outcome \in DetailsOutcomes : RepositoryDetailsResponse(t, outcome)
  \/ \E t \in TaskIds, outcome \in DetailsOutcomes : TopicsResponse(t, outcome)
  \/ \E t \in TaskIds, outcome \in DetailsOutcomes : ReadmeResponse(t, outcome)
  \/ \E t \in TaskIds : ToolRepositoryDetailsDone(t)
  \/ \E t \in TaskIds : CallToolDone(t)

SpecDetails == Init /\ [][NextDetails]_vars

Failures == {HttpFail(m) : m \in ApiErrors}

\* C13: getRepositoryReadme never raises; when the README call fails, as it
\* must when the repository has no README, it returns the empty string and
\* leaves the cache as it was.
C13_ReadmeNeverRaises ==
  /\ [](\A t \in TaskIds : tasks[t].fn = "getRepositoryReadme" => tasks[t].out.st # "err")
  /\ [][\A t \in TaskIds :
          (tasks[t].fn = "getRepositoryReadme" /\ tasks[t].pc = "http")
          => /\ t \in 1..Len(tasks')
             /\ tasks'[t].fn = "getRepositoryReadme"
             /\ tasks'[t].pc \in {"http", "settled"}
             /\ \A outcome \in Failures :
                  ReadmeResponse(t, outcome)
                  => (tasks'[t].out = Ok(Str(<<>>)) /\ data' = data)
             /\ (/\ tasks'[t].pc = "settled"
                 /\ remote.readme[RepoIndex(tasks[t].a.repoName)] = Null)
                => (tasks'[t].out = Ok(Str(<<>>)) /\ data' = data)]_vars

\* The README of B, which has none, was asked for and came back empty, with
\* nothing cached for it.
C13_AbsentReadme ==
  \E t \in TaskIds :
    /\ tasks[t].fn = "getRepositoryReadme"
    /\ tasks[t].a.repoName = <<"B">>
    /\ tasks[t].req.api = "getReadme"
    /\ tasks[t].pc = "settled"
    /\ tasks[t].out = Ok(Str(<<>>))
    /\ ReadmeKey(<<"B">>) \notin DOMAIN data

\* C14: in getRepositoryDetails, when repos.get has succeeded and the topic
\* call fails, the operation succeeds, returns the repository with no
\* topics and caches that result under its key; the operation fails only
\* where repos.get itself failed.
C14_TopicFailureSwallowed ==
  /\ [][\A t \in TaskIds, outcome \in Failures :
          TopicsResponse(t, outcome)
          => /\ tasks'[t].pc = "settled"
             /\ tasks'[t].out.st = "ok"
             /\ tasks'[t].out.v.o.topics = Arr(<<>>)
             /\ tasks'[t].out.v.o.name = tasks[t].a.repoName
             /\ RepoKey(tasks[t].a.repoName) \in DOMAIN data'
             /\ data'[RepoKey(tasks[t].a.repoName)].v = tasks'[t].out.v]_vars
  /\ [](\A t \in TaskIds :
          (tasks[t].fn = "getRepositoryDetails" /\ tasks[t].out.st = "err")
          => tasks[t].req.api = "get")

\* The details of a, which has a topic, came back without topics after the
\* topic call failed, and are cached so.
C14_NoTopics ==
  \E t \in TaskIds :
    /\ tasks[t].fn = "getRepositoryDetails"
    /\ tasks[t].a.repoName = <<"a">>
    /\ tasks[t].req.api = "getAllTopics"
    /\ tasks[t].pc = "settled"
    /\ tasks[t].out.st = "ok"
    /\ tasks[t].out.v.o.topics = Arr(<<>>)
    /\ remote.repos[1].topics = Arr(<<TopicApi>>)
    /\ data[RepoKey(<<"a">>)].v = tasks[t].out.v

----------------------------------------------------------------------------
(* SpecRateLimit: the rate limit asked for between tool calls that fill    *)
(* the cache, while entries expire.                                        *)

\* response.data.rate, as far as the remaining requests go.
Rates == {[limit |-> 1, remaining |-> r] : r \in 0..1}

NextRateLimit ==
  \/ GetRateLimit
  \/ \E t \in TaskIds, outcome \in MainOutcomes, rate \in Rates :
       RateLimitResponse(t, outcome, rate)
  \/ \E uc \in {Undefined, Bool(FALSE)} :
       CallTool(ToolName.list_repositories, ListArgs(uc, Undefined, Undefined))
  \/ \E t \in TaskIds, outcome \in MainOutcomes : ListRepositoriesResponse(t, outcome)
  \/ \E t \in TaskIds : ToolListRepositoriesDone(t)
  \/ \E t \in TaskIds : CallToolDone(t)
  \/ Advance
  \/ ServerSweep

SpecRateLimit == Init /\ [][NextRateLimit]_vars

\* An invocation of getRateLimit, suspended on its request.
AsksRate(ts, t) ==
  /\ t \in 1..Len(ts)
  /\ ts[t].fn = "getRateLimit"
  /\ ts[t].pc = "http"

\* C15: a call of getRateLimit sends one rateLimit request, whatever the
\* cache holds, and neither the call nor its return changes the cache; a
\* call that has returned had exactly one upstream request, and what it
\* returned is what that request was answered with.
C15_RateLimitLive ==
  /\ [][\A t \in 1..Len(tasks') :
          (AsksRate(tasks', t) /\ ~AsksRate(tasks, t))
          => /\ data' = data
             /\ Len(SelectSeq(reqlog', LAMBDA e : e.root = tasks'[t].root)) = 1
             /\ reqlog'[Len(reqlog')].api = "rateLimit"]_vars
  /\ [][\A t \in TaskIds :
          (AsksRate(tasks, t) /\ ~AsksRate(tasks', t))
          => /\ data' = data
             /\ ret'.op = "getRateLimit"
             /\ Len(SelectSeq(reqlog', LAMBDA e : e.root = ret'.root)) = 1
             /\ (ret'.out.st = "ok" => ret'.out.v.o \in Rates)]_vars
  /\ [](\A t \in TaskIds : AsksRate(tasks, t) => Roots(St) = {t})

\* The rate limit was asked for and answered while the cache held the
\* repository list.
C15_LiveBesideCache ==
  /\ ret.op = "getRateLimit"
  /\ ret.out.st = "ok"
  /\ ret.root = 2
  /\ ReposKey \in DOMAIN data

----------------------------------------------------------------------------
(* SpecErrors: handleApiError on the messages made of up to MaxFragments   *)
(* pieces, among them the substrings it looks for, whole and in parts.     *)

MaxFragments == 3

Fragments ==
  {Msg.rateLimit, Msg.status401, Msg.badCredentials, Msg.status404,
   <<"R", "a", "t", "e", " ", "L", "i", "m", "i", "t">>, <<"4", "0">>, <<"1">>, <<" ">>}

ErrorMessages ==
  {Flat(pieces) : pieces \in UNION {[1..n -> Fragments] : n \in 0..MaxFragments}}

\* An upstream call has thrown an Error with one of the messages.
InitErrors ==
  /\ now = 0
  /\ data = EmptyCache
  /\ \E message \in ErrorMessages : calls = [op |-> "throw", message |-> message]
  /\ ret = NoReturn
  /\ remote = [repos |-> <<>>, readme |-> <<>>, commits |-> <<>>]
  /\ heap = <<>>
  /\ tasks = <<>>
  /\ reqlog = <<>>
  /\ nroot = 0
  /\ cfg = [maxCalls |-> 0, maxActive |-> 0]

\* throw this.handleApiError(error)
Rethrow ==
  /\ calls.op = "throw"
  /\ calls' = [op |-> "handleApiError", message |-> calls.message,
               out |-> HandleApiError(calls.message)]
  /\ UNCHANGED <<now, data, ret, server>>

NextErrors == Rethrow

SpecErrors == InitErrors /\ [][NextErrors]_vars

\* C16: handleApiError puts an error in exactly one category by the
\* substrings of its message, looked for in this order: "rate limit" gives
\* the rate-limit error; else "401" or "Bad credentials" the authentication
\* error; else "404" the not-found error; a message with none of them is
\* passed on unchanged.
C16_Classified ==
  calls.op = "handleApiError" =>
    LET m == calls.message
        rate == Includes(m, <<"r", "a", "t", "e", " ", "l", "i", "m", "i", "t">>)
        auth == \/ Includes(m, <<"4", "0", "1">>)
                \/ Includes(m, <<"B", "a", "d", " ", "c", "r", "e", "d", "e", "n", "t", "i", "a", "l", "s">>)
        missing == Includes(m, <<"4", "0", "4">>)
    IN  /\ rate => calls.out = Msg.rateLimited
        /\ (~rate /\ auth) => calls.out = Msg.invalidToken
        /\ (~rate /\ ~auth /\ missing) => calls.out = Msg.notFound
        /\ (~rate /\ ~auth /\ ~missing) => calls.out = m
        /\ Cardinality({Msg.rateLimited, Msg.invalidToken, Msg.notFound, m}) = 4

\* A message with both "404" and "401" in it, and no "rate limit", has come
\* out as the authentication error.
C16_AuthBeforeNotFound ==
  /\ calls.op = "handleApiError"
  /\ calls.message = <<"4", "0", "4", " ", "4", "0", "1">>
  /\ calls.out = Msg.invalidToken

----------------------------------------------------------------------------
(* SpecMerge: recent commits across an account of MergeRepos repositories, *)
(* each with one commit, with two, or with one that has no author.         *)

MergeRepos == 3

\* The commits of the i-th repository, newest first.
MergeCommitLists(i) ==
  {<<[sha |-> 10 * i, date |-> Date(2 * i + 3)]>>,
   <<[sha |-> 10 * i, date |-> Undefined]>>,
   <<[sha |-> 10 * i, date |-> Date(2 * i + 3)], [sha |-> 10 * i + 1, date |-> Date(i)]>>}

MergeAccounts ==
  {[repos |-> [i \in 1..MergeRepos |-> Repo(Letter(i), 0, 0, Null, Undefined, i)],
    readme |-> [i \in 1..MergeRepos |-> Null],
    commits |-> lists] :
     lists \in {f \in [1..MergeRepos -> UNION {MergeCommitLists(i) : i \in 1..MergeRepos}] :
                  \A i \in 1..MergeRepos : f[i] \in MergeCommitLists(i)}}

InitMerge ==
  /\ InitServer
  /\ remote \in MergeAccounts
  /\ cfg = [maxCalls |-> PagesCalls, maxActive |-> 1]

NextMerge ==
  \/ \E limit \in {Undefined, Num(1), Num(2)} :
       CallTool(ToolName.get_recent_commits, CommitsArgs(Undefined, limit, Undefined))
  \/ \E t \in TaskIds : ListRepositoriesResponse(t, HttpOk)
  \/ \E t \in TaskIds, i \in 1..FanOut, outcome \in MainOutcomes : FanResponse(t, i, outcome)
  \/ \E t \in TaskIds : RecentCommitsFanOut(t)
  \/ \E t \in TaskIds : ToolRecentCommitsDone(t)
  \/ \E t \in TaskIds : CallToolDone(t)

SpecMerge == InitMerge /\ [][NextMerge]_vars

\* Commit a's date is older than commit b's.
Older(a, b) == ValidDate(a.date) /\ ValidDate(b.date) /\ a.date.ts < b.date.ts

\* C17: getRecentCommits without a repository name returns the commits
\* fetched per repository, merged, in descending order of commit date (no
\* element is older than one that comes after it), cut to the first `limit`
\* of that order: as many as the limit allows, and none left out that is
\* newer than one returned.
C17_MergedByDate ==
  \A t \in TaskIds :
    (/\ tasks[t].fn = "getRecentCommits"
     /\ tasks[t].pc = "settled"
     /\ tasks[t].out.st = "ok"
     /\ tasks[t].l # NoLocals)
    => LET result == tasks[t].out.v.items
           fetched == Flat(tasks[t].l.got)
       IN  /\ Len(result) = Min(tasks[t].a.limit, Len(fetched))
           /\ \A i \in 1..Len(result) : \E j \in 1..Len(fetched) : fetched[j] = result[i]
           /\ \A i, j \in 1..Len(result) : i < j => result[i] # result[j]
           /\ \A i, j \in 1..Len(result) : i < j => ~Older(result[i], result[j])
           /\ \A j \in 1..Len(fetched) :
                (\A i \in 1..Len(result) : result[i] # fetched[j])
                => \A i \in 1..Len(result) : ~Older(result[i], fetched[j])

----------------------------------------------------------------------------
(* SpecFresh: the list and the statistics asked for, with and without the  *)
(* cache, while the account's first repository is given stars upstream.    *)

StarCap == 2

\* Somebody stars the first repository on GitHub.
Star ==
  /\ Roots(St) = {}
  /\ nroot < cfg.maxCalls
  /\ remote.repos[1].stargazers_count < StarCap
  /\ remote' = [remote EXCEPT !.repos[1].stargazers_count = @ + 1]
  /\ UNCHANGED <<now, data, calls, ret, heap, tasks, reqlog, nroot, cfg>>

FreshCalls ==
  {[name |-> ToolName.get_repository_stats, args |-> CacheArgs(uc)] : uc \in {Undefined, Bool(FALSE)}}
  \cup {[name |-> ToolName.list_repositories, args |-> ListArgs(uc, Undefined, Undefined)] :
          uc \in {Undefined, Bool(FALSE)}}

NextFresh ==
  \/ \E c \in FreshCalls : CallTool(c.name, c.args)
  \/ \E t \in TaskIds, outcome \in MainOutcomes : ListRepositoriesResponse(t, outcome)
  \/ \E t \in TaskIds : RepositoryStatsDone(t)
  \/ \E t \in TaskIds : ToolListRepositoriesDone(t)
  \/ \E t \in TaskIds : ToolRepositoryStatsDone(t)
  \/ \E t \in TaskIds : CallToolDone(t)
  \/ Star
  \/ Advance
  \/ ServerSweep

SpecFresh == Init /\ [][NextFresh]_vars

\* C18: whenever the cache holds both the repository list and the
\* statistics (and no call is under way), the statistics are those derived
\* from the cached list, also after list_repositories calls with
\* use_cache = false.
C18_StatsOfCachedList ==
  (Roots(St) = {} /\ Unexpired(ReposKey) /\ Unexpired(StatsKey))
  => data[StatsKey].v = StatsOf(Items(St, data[ReposKey].v))

----------------------------------------------------------------------------
(* SpecFailure: calls that fail, with the cache as it was when the call    *)
(* arrived kept in `calls` for comparison.                                 *)

FailureCalls ==
  {[name |-> ToolName.get_contribution_activity, args |-> CacheArgs(uc)] :
     uc \in {Undefined, Bool(FALSE)}}
  \cup {[name |-> ToolName.list_repositories, args |-> ListArgs(uc, Undefined, Undefined)] :
          uc \in {Undefined, Bool(FALSE)}}

\* A tools/call request arrives; the cache of this moment is noted.
CallToolNoting(name, args) ==
  /\ CanDeliver
  /\ LET s0 == Deliver(St)
         s == CallToolBegin(Spawn(s0, 0, "", "CallTool", [name |-> name, args |-> args]),
                            NewId(s0))
     IN  /\ data' = s.data
         /\ heap' = s.heap
         /\ tasks' = s.tasks
         /\ reqlog' = s.reqlog
         /\ ret' = s.ret
         /\ nroot' = s.nroot
  /\ calls' = [data |-> data, heap |-> heap, at |-> now]
  /\ UNCHANGED <<now, remote, cfg>>

NextFailure ==
  \/ \E c \in FailureCalls : CallToolNoting(c.name, c.args)
  \/ \E t \in TaskIds, outcome \in MainOutcomes : ListRepositoriesResponse(t, outcome)
  \/ \E t \in TaskIds, i \in 1..Len(remote.repos), outcome \in MainOutcomes : FanResponse(t, i, outcome)
  \/ \E t \in TaskIds : RecentCommitsFanOut(t)
  \/ \E t \in TaskIds : ActivityDone(t)
  \/ \E t \in TaskIds : ToolListRepositoriesDone(t)
  \/ \E t \in TaskIds : ToolActivityDone(t)
  \/ \E t \in TaskIds : CallToolDone(t)
  \/ Advance

SpecFailure == Init /\ [][NextFailure]_vars

\* The cache key of the fetch operation behind a tool.
OwnKey(name) ==
  CASE name = ToolName.list_repositories -> ReposKey
    [] name = ToolName.get_contribution_activity -> ActivityKey

\* A value with its array spelled out.
Spelled(h, v) == IF v.ty = "ref" THEN Arr(h[v.r]) ELSE v

\* In this step a call returns a failure.
ReturnsFailure ==
  /\ ret' # ret
  /\ ret'.op = "CallTool"
  /\ ~ret'.out.v.o.content.success

\* After the step the entry under key is what it was when the call arrived.
Kept(key) ==
  /\ key \in DOMAIN data'
  /\ data'[key].t = calls.data[key].t
  /\ Spelled(heap', data'[key].v) = Spelled(calls.heap, calls.data[key].v)

----------------------------------------------------------------------------
(* SpecNames: an account whose repositories are Zeta, alpha and Mu in any  *)
(* order, listed and searched by name. GitHub keeps the names of one       *)
(* owner's repositories distinct without regard to case.                   *)

NamesCalls == 3

Names == {<<"Z", "e", "t", "a">>, <<"a", "l", "p", "h", "a">>, <<"M", "u">>}

NameOrders ==
  {o \in [1..Cardinality(Names) -> Names] : \A i, j \in DOMAIN o : o[i] = o[j] => i = j}

NamedRepo(name) == Repo(name, Len(name), 0, Null, Undefined, 1)

NameCalls ==
  {[name |-> ToolName.list_repositories, args |-> ListArgs(Undefined, SortBy.name, Undefined)],
   [name |-> ToolName.list_repositories, args |-> ListArgs(Undefined, SortBy.stars, Undefined)],
   [name |-> ToolName.search_projects_by_tech,
    args |-> SearchArgs(Undefined, Undefined, Undefined, SortBy.name, OrderAsc, Undefined)],
   [name |-> ToolName.search_projects_by_tech,
    args |-> SearchArgs(Undefined, Undefined, Undefined, SortBy.name, Undefined, Undefined)]}

InitNames ==
  /\ InitServer
  /\ \E o \in NameOrders :
       remote = [repos |-> [i \in DOMAIN o |-> NamedRepo(o[i])],
                 readme |-> [i \in DOMAIN o |-> Null],
                 commits |-> [i \in DOMAIN o |-> <<>>]]
  /\ cfg = [maxCalls |-> NamesCalls, maxActive |-> 1]

NextNames ==
  \/ \E c \in NameCalls : CallTool(c.name, c.args)
  \/ \E t \in TaskIds, outcome \in MainOutcomes : ListRepositoriesResponse(t, outcome)
  \/ \E t \in TaskIds, tie \in {"keep", "swap"} : SearchDone(t, tie)
  \/ \E t \in TaskIds : ToolListRepositoriesDone(t)
  \/ \E t \in TaskIds : ToolSearchDone(t)
  \/ \E t \in TaskIds : CallToolDone(t)

SpecNames == InitNames /\ [][NextNames]_vars

\* A call of tool `name` sorted by name, ascending, has returned a list.
ByName(name) ==
  /\ ret.op = "CallTool"
  /\ ret.a.name = name
  /\ ret.a.args.o.sort_by = SortBy.name
  /\ name = ToolName.search_projects_by_tech => ret.a.args.o.order = OrderAsc
  /\ ret.out.v.o.content.success

\* Alphabetical without regard to case.
Collated(items) ==
  \A i, j \in 1..Len(items) :
    i < j => StrLess(ToLowerCase(items[i].name), ToLowerCase(items[j].name))

Occurs(x, seq) == Cardinality({i \in 1..Len(seq) : seq[i] = x})

Permutation(a, b) ==
  /\ Len(a) = Len(b)
  /\ \A i \in 1..Len(a) : Occurs(a[i], a) = Occurs(a[i], b)

\* C20: sorted by name ascending, list_repositories and
\* search_projects_by_tech both return the repositories in alphabetical
\* order without regard to case (alpha, Mu, Zeta), and what they
\* return is a permutation of the fetched list.
C20_NameOrder ==
  \A name \in {ToolName.list_repositories, ToolName.search_projects_by_tech} :
    ByName(name) =>
      /\ Collated(ret.out.v.o.content.data.items)
      /\ Permutation(ret.out.v.o.content.data.items, Metadata(remote.repos))

----------------------------------------------------------------------------
(* SpecMostActive: findMostActiveDay on commit samples as getRecentCommits *)
(* hands them over: a commit without author has the date ''.               *)

DatedOrNot ==
  {[sha |-> 0, date |-> d, repository |-> <<"a">>] :
     d \in {Date(ts) : ts \in 0..MaxTick} \cup {Str(<<>>)}}

InitMostActive ==
  /\ now = 0
  /\ data = EmptyCache
  /\ calls \in UNION {[1..n -> DatedOrNot] : n \in 0..SampleLen}
  /\ ret = NoReturn
  /\ remote = [repos |-> <<>>, readme |-> <<>>, commits |-> <<>>]
  /\ heap = <<>>
  /\ tasks = <<>>
  /\ reqlog = <<>>
  /\ nroot = 0
  /\ cfg = [maxCalls |-> 0, maxActive |-> 0]

\* this.findMostActiveDay(commits): toISOString throws a RangeError on the
\* first commit whose date does not parse.
MostActiveDay ==
  /\ ret = NoReturn
  /\ ret' = [op |-> "findMostActiveDay", a |-> calls,
             out |-> IF \E i \in 1..Len(calls) : ~ValidDate(calls[i].date)
                     THEN Err(Msg.invalidTime)
                     ELSE Ok(FindMostActiveDay(calls))]
  /\ UNCHANGED <<now, data, calls, remote, heap, tasks, reqlog, nroot, cfg>>

NextMostActive == MostActiveDay

SpecMostActive == InitMostActive /\ [][NextMostActive]_vars

\* The commits of the sample made on day d.
OnDay(sample, d) == {i \in 1..Len(sample) : ValidDate(sample[i].date) /\ DayOf(sample[i].date) = d}

\* Day d has the most commits of the sample, and of the days that have as
\* many it is the one whose first commit comes first.
FirstBusiest(sample, d) ==
  /\ OnDay(sample, d) # {}
  /\ \A i \in 1..Len(sample) :
       LET e == DayOf(sample[i].date)
       IN  /\ Cardinality(OnDay(sample, e)) <= Cardinality(OnDay(sample, d))
           /\ (Cardinality(OnDay(sample, e)) = Cardinality(OnDay(sample, d)) /\ e # d)
              => \E j \in OnDay(sample, d) : j < i

\* On samples whose commits all have a date.
MostActiveWhenDated ==
  (ret.op = "findMostActiveDay" /\ \A i \in 1..Len(ret.a) : ValidDate(ret.a[i].date))
  => /\ ret.out.st = "ok"
     /\ ret.a = <<>> => ret.out.v = NotAvailable
     /\ ret.a # <<>> => (ret.out.v.ty = "day" /\ FirstBusiest(ret.a, ret.out.v.d))

\* C21: findMostActiveDay returns "N/A" for the empty sample and otherwise
\* a day with the most commits in the sample, the one that appears first
\* among the days tied for the most.
C21_MostActiveDay ==
  ret.op = "findMostActiveDay"
  => /\ ret.out.st = "ok"
     /\ ret.a = <<>> => ret.out.v = NotAvailable
     /\ ret.a # <<>> => (ret.out.v.ty = "day" /\ FirstBusiest(ret.a, ret.out.v.d))

----------------------------------------------------------------------------
(* The most starred and the most forked repository.                        *)

\* get_repository_stats has returned statistics.
StatsReturned ==
  /\ ret.op = "CallTool"
  /\ ret.a.name = ToolName.get_repository_stats
  /\ ret.out.v.o.content.success

\* The first repository of the list that none has more of `field` than.
FirstMost(repos, field) ==
  repos[CHOOSE k \in 1..Len(repos) :
          /\ \A j \in 1..Len(repos) : repos[j][field] <= repos[k][field]
          /\ \A j \in 1..(k - 1) : repos[j][field] < repos[k][field]]

\* C22: most_starred_repo and most_forked_repo are null exactly when the
\* list is empty; otherwise each is the first repository in list order
\* among those with the most stars (forks), also when every count is 0.
C22_FirstSeenWins ==
  StatsReturned =>
    LET repos == Metadata(remote.repos)
        stats == ret.out.v.o.content.data.o
    IN  /\ (stats.most_starred_repo = Null) <=> (repos = <<>>)
        /\ (stats.most_forked_repo = Null) <=> (repos = <<>>)
        /\ repos # <<>> =>
             /\ stats.most_starred_repo = Obj(FirstMost(repos, "stars"))
             /\ stats.most_forked_repo = Obj(FirstMost(repos, "forks"))

\* Statistics have been returned for an account of several repositories
\* that all have no star: the first of the list is the most starred.
C22_AllZeroTie ==
  /\ StatsReturned
  /\ Len(remote.repos) > 1
  /\ \A i \in 1..Len(remote.repos) : remote.repos[i].stargazers_count = 0
  /\ ret.out.v.o.content.data.o.most_starred_repo = Obj(Metadata(remote.repos)[1])

----------------------------------------------------------------------------
(* SpecEnvelope: the eight tools, with use_cache absent, false and true,    *)
(* on the account of one repository.                                       *)

UseCacheArgs == {Undefined, Bool(FALSE)}

EnvelopeCalls ==
  {[name |-> n, args |-> CacheArgs(uc)] :
     n \in {ToolName.get_repository_stats, ToolName.get_contribution_activity,
            ToolName.get_skills_matrix, ToolName.generate_portfolio_summary},
     uc \in UseCacheArgs}
  \cup {[name |-> ToolName.get_repository_stats, args |-> CacheArgs(Bool(TRUE))]}
  \cup {[name |-> ToolName.list_repositories, args |-> ListArgs(uc, SortBy.stars, Undefined)] :
          uc \in UseCacheArgs}
  \cup {[name |-> ToolName.get_repository_details, args |-> DetailsArgs(Str(<<"a">>), uc, Bool(TRUE))] :
          uc \in UseCacheArgs}
  \cup {[name |-> ToolName.get_recent_commits, args |-> CommitsArgs(Undefined, Undefined, uc)] :
          uc \in UseCacheArgs}
  \cup {[name |-> ToolName.search_projects_by_tech,
         args |-> SearchArgs(Str(<<"g", "o">>), Undefined, Undefined, Undefined, Undefined, uc)] :
          uc \in UseCacheArgs}
  \cup {[name |-> ToolName.get_repository_details, args |-> Undefined]}

InitEnvelope ==
  /\ InitServer
  /\ remote = OverlapRemote
  /\ cfg = [maxCalls |-> PagesCalls, maxActive |-> 1]

NextEnvelope ==
  \/ \E c \in EnvelopeCalls : CallTool(c.name, c.args)
  \/ \E t \in TaskIds, outcome \in MainOutcomes : ListRepositoriesResponse(t, outcome)
  \/ \E t \in TaskIds, outcome \in MainOutcomes : RepositoryDetailsResponse(t, outcome)
  \/ \E t \in TaskIds : TopicsResponse(t, HttpOk)
  \/ \E t \in TaskIds : ReadmeResponse(t, HttpFail(Msg.status404))
  \/ \E t \in TaskIds, i \in 1..Len(remote.repos) : FanResponse(t, i, HttpOk)
  \/ \E t \in TaskIds : RecentCommitsFanOut(t)
  \/ \E t \in TaskIds : RepositoryStatsDone(t)
  \/ \E t \in TaskIds, tie \in {"keep", "swap"} : SearchDone(t, tie)
  \/ \E t \in TaskIds : ActivityDone(t)
  \/ \E t \in TaskIds : ToolListRepositoriesDone(t)
  \/ \E t \in TaskIds : ToolRepositoryDetailsDone(t)
  \/ \E t \in TaskIds : ToolRecentCommitsDone(t)
  \/ \E t \in TaskIds : ToolRepositoryStatsDone(t)
  \/ \E t \in TaskIds : ToolSearchDone(t)
  \/ \E t \in TaskIds : ToolActivityDone(t)
  \/ \E t \in TaskIds : ToolSkillsDone(t)
  \/ \E t \in TaskIds : ToolPortfolioDone(t)
  \/ \E t \in TaskIds : CallToolDone(t)

SpecEnvelope == InitEnvelope /\ [][NextEnvelope]_vars

\* The fields of a success envelope and of a failure envelope.
SuccessFields == {"success", "data", "cached", "timestamp"}
FailureFields == {"success", "error", "timestamp"}

\* The use_cache argument of the call that returned, true when left out.
AskedCache ==
  IF ret.a.args.ty # "object" \/ ret.a.args.o.use_cache.ty = "undefined" THEN TRUE
  ELSE ret.a.args.o.use_cache.b

\* C23: what a tool returns is a success envelope (success = true, data,
\* no error, a timestamp, cached equal to the call's use_cache, true when
\* left out) or a failure envelope (success = false, an error with a code
\* and a message, a timestamp, no data).
C23_Envelope ==
  (ret.op = "CallTool" /\ ret.a.name \in {ToolName[n] : n \in DOMAIN ToolName}) =>
    LET result == ret.out.v.o.content
    IN  IF result.success
        THEN /\ DOMAIN result = SuccessFields
             /\ result.cached = AskedCache
             /\ result.timestamp = now
        ELSE /\ DOMAIN result = FailureFields
             /\ {"error", "message"} \subseteq DOMAIN result.error
             /\ result.error.error = Code[CHOOSE n \in DOMAIN ToolName : ToolName[n] = ret.a.name]
             /\ result.error.message # <<>>
             /\ result.timestamp = now

\* get_skills_matrix called with use_cache = false has returned a success
\* envelope that says cached = false.
C23_CachedFalse ==
  /\ ret.op = "CallTool"
  /\ ret.a.name = ToolName.get_skills_matrix
  /\ ret.out.v.o.content.success
  /\ ~AskedCache
  /\ ret.out.v.o.content.cached = FALSE

----------------------------------------------------------------------------
(* SpecValidate: get_repository_details with and without a repository      *)
(* name, on a cache that earlier calls have filled.                        *)

ValidateCalls ==
  {[name |-> ToolName.get_repository_details, args |-> a] :
     a \in {DetailsArgs(Str(<<"a">>), Undefined, Undefined),
            DetailsArgs(Undefined, Undefined, Bool(TRUE)),
            DetailsArgs(Str(<<>>), Bool(FALSE), Undefined),
            Undefined, Null}}

NextValidate ==
  \/ \E c \in ValidateCalls : CallTool(c.name, c.args)
  \/ \E t \in TaskIds, outcome \in MainOutcomes : RepositoryDetailsResponse(t, outcome)
  \/ \E t \in TaskIds, outcome \in MainOutcomes : TopicsResponse(t, outcome)
  \/ \E t \in TaskIds : ToolRepositoryDetailsDone(t)
  \/ \E t \in TaskIds : CallToolDone(t)
  \/ Advance

SpecValidate == Init /\ [][NextValidate]_vars

\* A call of get_repository_details that names no repository.
Nameless(a) ==
  /\ a.name = ToolName.get_repository_details
  /\ a.args.ty = "object" => ~Truthy(a.args.o.repository_name)

\* The calls in progress that name no repository.
NamelessRoots(ts) ==
  {ts[t].root : t \in {u \in 1..Len(ts) : /\ ts[u].fn = "CallTool"
                                          /\ ts[u].parent = 0
                                          /\ Nameless(ts[u].a)}}

\* C24: get_repository_details called without a repository name (missing,
\* empty, or no argument object) returns a failure envelope; from its
\* arrival to its return no upstream request is issued for it and the
\* cache stays as it is.
C24_ValidatedFirst ==
  /\ [][LET roots == NamelessRoots(tasks) \cup NamelessRoots(tasks')
        IN  roots # {} =>
              /\ data' = data
              /\ \A i \in 1..Len(reqlog') : reqlog'[i].root \notin roots]_vars
  /\ [](ret.op = "CallTool" /\ Nameless(ret.a)
        => /\ ~ret.out.v.o.content.success
           /\ ret.out.v.o.content.error.error = Code.get_repository_details)

\* A call with an empty repository name has returned while the cache holds
\* the repository an earlier call fetched.
C24_EmptyName ==
  /\ ret.op = "CallTool"
  /\ Nameless(ret.a)
  /\ ret.a.args.ty = "object"
  /\ ret.a.args.o.repository_name = Str(<<>>)
  /\ Roots(St) = {}
  /\ RepoKey(<<"a">>) \in DOMAIN data

----------------------------------------------------------------------------
(* SpecKeys: recent commits of an account whose repositories are named     *)
(* all and a, asked for one repository and across repositories.            *)

AllName == <<"a", "l", "l">>

KeysRemote ==
  [repos |-> <<Repo(AllName, 0, 0, Null, Undefined, 2), Repo(<<"a">>, 0, 0, Null, Undefined, 1)>>,
   readme |-> <<Null, Null>>,
   commits |-> << <<[sha |-> 1, date |-> Date(5)]>>, <<[sha |-> 2, date |-> Date(3)]>> >>]

KeysParams ==
  {[repository_name |-> n, limit |-> l] :
     n \in {Undefined, Str(AllName), Str(<<"a">>)}, l \in {Undefined, Num(1)}}

InitKeys ==
  /\ InitServer
  /\ remote = KeysRemote
  /\ cfg = [maxCalls |-> MaxCalls, maxActive |-> 1]

NextKeys ==
  \/ \E p \in KeysParams :
       CallTool(ToolName.get_recent_commits, CommitsArgs(p.repository_name, p.limit, Undefined))
  \/ \E t \in TaskIds, outcome \in MainOutcomes : ListRepositoriesResponse(t, outcome)
  \/ \E t \in TaskIds, outcome \in MainOutcomes : CommitsResponse(t, outcome)
  \/ \E t \in TaskIds, i \in 1..Len(remote.repos), outcome \in MainOutcomes :
       FanResponse(t, i, outcome)
  \/ \E t \in TaskIds : RecentCommitsFanOut(t)
  \/ \E t \in TaskIds : ToolRecentCommitsDone(t)
  \/ \E t \in TaskIds : CallToolDone(t)

SpecKeys == InitKeys /\ [][NextKeys]_vars

\* const { repository_name, limit = 50 } = args, then the key.
KeyOfParams(p) ==
  CommitsKey(p.repository_name, IF p.limit.ty = "undefined" THEN DefaultLimit ELSE p.limit.n)

\* C25: calls that differ in their parameters use different keys, so that
\* a call for the commits of one repository is never served the entry of
\* the call across repositories: what it returns are that repository's
\* commits, also for the repository named all.
C25_KeysApart ==
  /\ \A p, q \in KeysParams : p # q => KeyOfParams(p) # KeyOfParams(q)
  /\ (/\ ret.op = "CallTool"
      /\ ret.out.v.o.content.success
      /\ Truthy(ret.a.args.o.repository_name))
     => \A i \in 1..Len(ret.out.v.o.content.data.items) :
          ret.out.v.o.content.data.items[i].repository = ret.a.args.o.repository_name.s

----------------------------------------------------------------------------
(* SpecNoCache: the fetch operations asked to use the cache and to go      *)
(* round it, while the first repository is given a star upstream.          *)

NoCacheRemote ==
  [repos |-> <<RepoA, RepoB>>,
   readme |-> <<Str(<<"a", "G", "k", "=">>), Null>>,
   commits |-> << <<[sha |-> 1, date |-> Date(5)]>>, <<[sha |-> 3, date |-> Date(4)]>> >>]

NoCacheCalls ==
  UNION {{[name |-> ToolName.get_repository_details,
           args |-> DetailsArgs(Str(<<"a">>), uc, Bool(TRUE))],
          [name |-> ToolName.get_contribution_activity, args |-> CacheArgs(uc)],
          [name |-> ToolName.get_repository_stats, args |-> CacheArgs(uc)],
          [name |-> ToolName.search_projects_by_tech,
           args |-> SearchArgs(Undefined, Undefined, Undefined, Undefined, Undefined, uc)]} :
         uc \in {Undefined, Bool(FALSE)}}

InitNoCache ==
  /\ InitServer
  /\ remote = NoCacheRemote
  /\ cfg = [maxCalls |-> MaxCalls, maxActive |-> 1]

NextNoCache ==
  \/ \E c \in NoCacheCalls : CallToolNoting(c.name, c.args)
  \/ \E t \in TaskIds, outcome \in MainOutcomes : ListRepositoriesResponse(t, outcome)
  \/ \E t \in TaskIds : RepositoryDetailsResponse(t, HttpOk)
  \/ \E t \in TaskIds : TopicsResponse(t, HttpOk)
  \/ \E t \in TaskIds, outcome \in {HttpOk, HttpFail(Msg.status404)} : ReadmeResponse(t, outcome)
  \/ \E t \in TaskIds, i \in 1..Len(remote.repos) : FanResponse(t, i, HttpOk)
  \/ \E t \in TaskIds : RecentCommitsFanOut(t)
  \/ \E t \in TaskIds : ActivityDone(t)
  \/ \E t \in TaskIds : RepositoryStatsDone(t)
  \/ \E t \in TaskIds : SearchDone(t, "keep")
  \/ \E t \in TaskIds : ToolRepositoryDetailsDone(t)
  \/ \E t \in TaskIds : ToolActivityDone(t)
  \/ \E t \in TaskIds : ToolRepositoryStatsDone(t)
  \/ \E t \in TaskIds : ToolSearchDone(t)
  \/ \E t \in TaskIds : CallToolDone(t)
  \/ Star

SpecNoCache == InitNoCache /\ [][NextNoCache]_vars

\* The invocation made in this step has sent a request of its own, or has
\* called another fetch operation, telling it to go round the cache as well.
GoesUpstream(t) ==
  \/ \E i \in 1..Len(reqlog') :
       /\ reqlog'[i].task = t
       /\ reqlog'[i].root = tasks'[t].root
       /\ reqlog'[i].fn = tasks'[t].fn
  \/ \E c \in 1..Len(tasks') :
       /\ Called(c)
       /\ tasks'[c].parent = t
       /\ ~tasks'[c].a.useCache

\* In this step the invocation t, called with use_cache = false, returns a
\* value it has fetched (a README whose request failed is no such value).
FetchedAfresh(t) ==
  /\ t \in Live(St)
  /\ tasks[t].fn \in FetchOps
  /\ ~tasks[t].a.useCache
  /\ tasks[t].pc # "settled"
  /\ t \in 1..Len(tasks')
  /\ tasks'[t].fn = tasks[t].fn
  /\ tasks'[t].pc = "settled"
  /\ tasks'[t].out.st = "ok"
  /\ ~(tasks[t].fn = "getRepositoryReadme" /\ tasks[t].pc = "http"
       /\ tasks'[t].out.v = Str(<<>>))

\* The returned envelope's data, arrays spelled out.
DataOf(h, r) == Spelled(h, r.out.v.o.content.data)

\* In this step a call that uses the cache returns, the call before it
\* having been the same call with use_cache = false, returned with success
\* (and with the README it asked for) at this very time.
FollowsFresh ==
  /\ ret.op = "CallTool"
  /\ ret.a.args.o.use_cache = Bool(FALSE)
  /\ ret.out.v.o.content.success
  /\ (ret.a.name = ToolName.get_repository_details
      => ret.out.v.o.content.data.o.readme # Str(<<>>))
  /\ ret' # ret
  /\ ret'.op = "CallTool"
  /\ ret'.a.name = ret.a.name
  /\ ret'.a.args = [ret.a.args EXCEPT !.o.use_cache = Undefined]
  /\ ret'.out.v.o.content.timestamp = ret.out.v.o.content.timestamp

\* C26: a fetch operation called with use_cache = false returns nothing
\* from the cache but goes upstream, also when an unexpired entry exists;
\* when it succeeds the entry under its key holds what it returns, unexpired;
\* and the same call made right after it with the cache in use returns the
\* same data.
C26_RoundTheCache ==
  /\ [][\A t \in 1..Len(tasks') :
          (Called(t) /\ ~tasks'[t].a.useCache)
          => (tasks'[t].pc # "settled" /\ GoesUpstream(t))]_vars
  /\ [][\A t \in 1..Len(tasks) :
          FetchedAfresh(t)
          => /\ Unexpired(KeyOf(tasks[t]))'
             /\ data'[KeyOf(tasks[t])].v = tasks'[t].out.v]_vars
  /\ [][FollowsFresh
        => /\ ret'.out.v.o.content.success
           /\ DataOf(heap', ret') = DataOf(heap, ret)]_vars

\* A call with use_cache = false has returned statistics that differ from
\* the unexpired ones the cache held when the call arrived, and the cache
\* now holds the new ones.
C26_FreshOverStale ==
  /\ ret.op = "CallTool"
  /\ ret.a.name = ToolName.get_repository_stats
  /\ ret.a.args.o.use_cache = Bool(FALSE)
  /\ ret.out.v.o.content.success
  /\ ret.root = nroot
  /\ StatsKey \in DOMAIN calls.data
  /\ NcAlive(calls.data[StatsKey], calls.at)
  /\ calls.data[StatsKey].v # ret.out.v.o.content.data
  /\ data[StatsKey].v = ret.out.v.o.content.data

----------------------------------------------------------------------------
(* SpecPartial: recent commits across the account, with commit-list        *)
(* requests that fail, and the clock moving between the calls.             *)

PartialCalls ==
  {[name |-> ToolName.get_recent_commits, args |-> CommitsArgs(Undefined, l, uc)] :
     l \in {Undefined, Num(1)}, uc \in {Undefined, Bool(FALSE)}}

NextPartial ==
  \/ \E c \in PartialCalls : CallTool(c.name, c.args)
  \/ \E t \in TaskIds, outcome \in MainOutcomes : ListRepositoriesResponse(t, outcome)
  \/ \E t \in TaskIds, i \in 1..Len(remote.repos), outcome \in MainOutcomes :
       FanResponse(t, i, outcome)
  \/ \E t \in TaskIds : RecentCommitsFanOut(t)
  \/ \E t \in TaskIds : ToolRecentCommitsDone(t)
  \/ \E t \in TaskIds : CallToolDone(t)
  \/ Advance
  \/ ServerSweep

SpecPartial == InitNoCache /\ [][NextPartial]_vars

\* Task t is a getRecentCommits across the repositories.
AcrossRepos(ts, t) ==
  /\ t \in 1..Len(ts)
  /\ ts[t].fn = "getRecentCommits"
  /\ ~Truthy(ts[t].a.repoName)

\* In this step the request for the i-th repository's commits fails.
FanFails(t, i) ==
  /\ AcrossRepos(tasks, t)
  /\ \E m \in ApiErrors : FanResponse(t, i, HttpFail(m))

\* In this step the fan-out of task t is over.
FanEnds(t) ==
  /\ AcrossRepos(tasks, t)
  /\ tasks[t].pc = "fan"
  /\ AcrossRepos(tasks', t)
  /\ tasks'[t].pc = "settled"

\* C27: in the getRecentCommits across repositories a commit-list request
\* that fails counts as no commits and does not fail the operation: the
\* operation returns, newest first and cut to the limit, the commits of the
\* repositories whose requests succeeded; what it returns, the empty list
\* too, is stored under its key, and a later call that uses the cache gets
\* it from there for as long as it is unexpired.
C27_PartialFanOut ==
  /\ [][\A t \in 1..Len(tasks), i \in 1..Len(remote.repos) :
          FanFails(t, i)
          => /\ tasks'[t].l.got[i] = <<>>
             /\ tasks'[t].out.st # "err"]_vars
  /\ [][\A t \in 1..Len(tasks) :
          FanEnds(t)
          => LET l == tasks'[t].l
                 result == tasks'[t].out.v.items
                 limit == tasks[t].a.limit
                 key == KeyOf(tasks[t])
             IN  /\ tasks'[t].out.st = "ok"
                 /\ \A i \in 1..Len(l.names) :
                      l.got[i] \in {<<>>, ListCommits(l.names[i], FanPerPage)}
                 /\ Len(result) = Min(limit, Len(Flat(l.got)))
                 /\ \A i \in 1..Len(result) : \E j \in 1..Len(Flat(l.got)) :
                      Flat(l.got)[j] = result[i]
                 /\ \A i, j \in 1..Len(result) :
                      i < j => (result[i] # result[j] /\ ~Older(result[i], result[j]))
                 /\ Unexpired(key)'
                 /\ data'[key].v = tasks'[t].out.v]_vars
  /\ [][\A t \in 1..Len(tasks') :
          (Called(t) /\ AcrossRepos(tasks', t) /\ tasks'[t].a.useCache
           /\ Unexpired(KeyOf(tasks'[t])))
          => /\ tasks'[t].pc = "settled"
             /\ tasks'[t].out = Ok(data[KeyOf(tasks'[t])].v)
             /\ \A i \in 1..Len(reqlog') : reqlog'[i].root # tasks'[t].root]_vars

\* Every commit-list request of an earlier call failed, and a later call,
\* using the cache, has been given the empty list without a request, though
\* the repositories have commits.
C27_EmptyListServed ==
  /\ ret.op = "CallTool"
  /\ ret.a.args.o.use_cache = Undefined
  /\ ret.out.v.o.content.success
  /\ ret.out.v.o.content.data = Arr(<<>>)
  /\ ret.root > 1
  /\ \A i \in 1..Len(reqlog) : reqlog[i].root # ret.root
  /\ \A i \in 1..Len(remote.commits) : remote.commits[i] # <<>>

----------------------------------------------------------------------------
(* SpecLastWriter: the list and the statistics asked for two requests at a *)
(* time, while the clock moves and the first repository is starred with    *)
(* requests in flight.                                                     *)

\* The clock moves on while requests are in flight.
Elapse ==
  /\ now < MaxClock
  /\ Roots(St) # {}
  /\ Quiescent(St)
  /\ now' = now + 1
  /\ UNCHANGED <<data, calls, ret, server>>

\* Somebody stars the first repository while requests are in flight.
StarMeanwhile ==
  /\ Roots(St) # {}
  /\ Quiescent(St)
  /\ remote.repos[1].stargazers_count < StarCap
  /\ remote' = [remote EXCEPT !.repos[1].stargazers_count = @ + 1]
  /\ UNCHANGED <<now, data, calls, ret, heap, tasks, reqlog, nroot, cfg>>

LastWriterCalls ==
  {[name |-> ToolName.list_repositories, args |-> ListArgs(uc, Undefined, Undefined)] :
     uc \in {Undefined, Bool(FALSE)}}
  \cup {[name |-> ToolName.get_repository_stats, args |-> NoCacheArgs]}

NextLastWriter ==
  \/ \E c \in LastWriterCalls : CallTool(c.name, c.args)
  \/ \E t \in TaskIds, outcome \in MainOutcomes : ListRepositoriesResponse(t, outcome)
  \/ \E t \in TaskIds : RepositoryStatsDone(t)
  \/ \E t \in TaskIds : ToolListRepositoriesDone(t)
  \/ \E t \in TaskIds : ToolRepositoryStatsDone(t)
  \/ \E t \in TaskIds : CallToolDone(t)
  \/ Elapse
  \/ StarMeanwhile

SpecLastWriter == InitOverlap /\ [][NextLastWriter]_vars

\* In this step the invocation t of a fetch operation, having gone upstream,
\* returns what it fetched.
Completes(t) ==
  /\ t \in Live(St)
  /\ tasks[t].fn \in FetchOps
  /\ tasks[t].pc \in {"http", "await", "fan"}
  /\ t \in 1..Len(tasks')
  /\ tasks'[t].fn = tasks[t].fn
  /\ tasks'[t].pc = "settled"
  /\ tasks'[t].out.st = "ok"

\* C28: every fetch that completes writes its own result under its key,
\* whatever an overlapping fetch for that key wrote before it, so that the
\* entry is that of the fetch that completed last, also when that one was
\* issued first, with the expiry counted from that write.
C28_LastWriterWins ==
  [][\A t \in 1..Len(tasks) :
       Completes(t)
       => data'[KeyOf(tasks[t])] = [v |-> tasks'[t].out.v, t |-> now + CacheTtl]]_vars

\* Two list_repositories calls overlapped; the one issued second returned
\* first, the clock moved, then the one issued first returned: the entry is
\* the first call's array, fetched last, expiring CacheTtl after that.
C28_FirstIssuedWroteLast ==
  /\ nroot = 2
  /\ Roots(St) = {}
  /\ ret.op = "CallTool"
  /\ ret.root = 1
  /\ ret.a.name = ToolName.list_repositories
  /\ ret.out.v.o.content.success
  /\ Len(heap) = 2
  /\ now > 0
  /\ ReposKey \in DOMAIN data
  /\ data[ReposKey] = [v |-> ArrRef(2), t |-> now + CacheTtl]
  /\ heap[1] # heap[2]

----------------------------------------------------------------------------
(* SpecCaps: recent commits and the contribution activity of an account of *)
(* CapsRepos repositories, the first of them, named r1 or all, with        *)
(* ManyCommits commits and the others with FewCommits each; the answers of *)
(* a fan-out arrive in the order of its requests. Every commit is newer    *)
(* than the one listed after it and than those of the repositories further *)
(* down the list.                                                          *)

CapsRepos == 11
ManyCommits == 51
FewCommits == 6

CapsName(first, i) == IF i = 1 THEN first ELSE <<"r">> \o Digits(i)

CapsAccount(first) ==
  [repos |-> [i \in 1..CapsRepos |-> Repo(CapsName(first, i), 0, 0, Null, Undefined, i)],
   readme |-> [i \in 1..CapsRepos |-> Null],
   commits |-> [i \in 1..CapsRepos |->
                  [j \in 1..(IF i = 1 THEN ManyCommits ELSE FewCommits) |->
                     [sha |-> 100 * i + j, date |-> Date(100 * (CapsRepos - i) + ManyCommits - j)]]]]

CapsCalls ==
  {[name |-> ToolName.get_recent_commits, args |-> CommitsArgs(n, l, Undefined)] :
     n \in {Undefined, Str(AllName), Str(<<"r", "1">>)}, l \in {Undefined, Num(3), Num(100)}}
  \cup {[name |-> ToolName.get_contribution_activity, args |-> NoCacheArgs]}

InitCaps ==
  /\ InitServer
  /\ remote \in {CapsAccount(<<"r", "1">>), CapsAccount(AllName)}
  /\ cfg = [maxCalls |-> MaxCalls, maxActive |-> 1]

NextCaps ==
  \/ \E c \in CapsCalls : CallTool(c.name, c.args)
  \/ \E t \in TaskIds : ListRepositoriesResponse(t, HttpOk)
  \/ \E t \in TaskIds, outcome \in {HttpOk, HttpFail(Msg.status404)} : CommitsResponse(t, outcome)
  \/ \E t \in TaskIds, i \in 1..FanOut :
       /\ Suspended(t, "getRecentCommits", "fan")
       /\ \A j \in 1..(i - 1) : j \notin tasks[t].l.pending
       /\ FanResponse(t, i, HttpOk)
  \/ \E t \in TaskIds : RecentCommitsFanOut(t)
  \/ \E t \in TaskIds : ActivityDone(t)
  \/ \E t \in TaskIds : ToolRecentCommitsDone(t)
  \/ \E t \in TaskIds : ToolActivityDone(t)
  \/ \E t \in TaskIds : CallToolDone(t)

SpecCaps == InitCaps /\ [][NextCaps]_vars

\* A successful call of the tool name has returned.
Returned(name) ==
  /\ ret.op = "CallTool"
  /\ ret.a.name = name
  /\ ret.out.v.o.content.success

\* The limit a get_recent_commits call asked for.
AskedLimit == IF ret.a.args.o.limit.ty = "undefined" THEN DefaultLimit ELSE ret.a.args.o.limit.n

CapsHold ==
  /\ (Returned(ToolName.get_recent_commits) /\ ~Truthy(ret.a.args.o.repository_name))
     => Len(ret.out.v.o.content.data.items) <= Min(AskedLimit, 50)
  /\ Returned(ToolName.get_contribution_activity)
     => /\ ret.out.v.o.content.data.o.total_commits <= 50
        /\ ret.out.v.o.content.data.o.repositories_contributed_to <= 10

\* C29: the getRecentCommits across repositories returns at most
\* min(limit, 50) commits, and the activity reports at most 50 commits and
\* at most 10 repositories.
C29_Caps == CapsHold

\* The same for an account that has no repository named all.
CapsWithoutAll == RepoIndex(AllName) = 0 => CapsHold

----------------------------------------------------------------------------
(* SpecLive: one tool call after the other, every request answered in the  *)
(* end and every continuation run. The accounts are small ones, asked      *)
(* through every tool, and ones of about one and two full pages, listed.   *)

SmallAccount == 2

LiveAccount(n) ==
  [repos |-> [i \in 1..n |-> ManyRepo(i)],
   readme |-> [i \in 1..n |-> Null],
   commits |-> [i \in 1..n |-> <<[sha |-> i, date |-> Date(i)]>>]]

LiveSizes ==
  (0..SmallAccount) \cup {PerPage - 1, PerPage, PerPage + 1, 2 * PerPage, MaxRepos}

LiveCalls ==
  {[name |-> n, args |-> NoCacheArgs] :
     n \in {ToolName.get_repository_stats, ToolName.get_contribution_activity,
            ToolName.get_skills_matrix, ToolName.generate_portfolio_summary}}
  \cup {[name |-> ToolName.get_repository_details,
         args |-> DetailsArgs(Str(<<"r", "1">>), Undefined, Bool(TRUE))],
        [name |-> ToolName.get_recent_commits, args |-> NoCommitsArgs],
        [name |-> ToolName.get_recent_commits,
         args |-> CommitsArgs(Str(<<"r", "1">>), Undefined, Undefined)],
        [name |-> ToolName.search_projects_by_tech, args |-> NoSearchArgs],
        [name |-> <<"x">>, args |-> Undefined]}

InitLive ==
  /\ InitServer
  /\ \E n \in LiveSizes : remote = LiveAccount(n)
  /\ cfg = [maxCalls |-> PagesCalls, maxActive |-> 1]

\* A request arrives: the list at any time, any other tool as the first
\* request to a small account.
Arrives ==
  \/ \E uc \in UseCacheArgs :
       CallTool(ToolName.list_repositories, ListArgs(uc, Undefined, Undefined))
  \/ \E c \in LiveCalls :
       /\ Len(remote.repos) <= SmallAccount
       /\ nroot = 0
       /\ CallTool(c.name, c.args)

\* An upstream request completes or fails.
Answers ==
  \/ \E t \in TaskIds, outcome \in MainOutcomes : ListRepositoriesResponse(t, outcome)
  \/ \E t \in TaskIds, outcome \in MainOutcomes : RepositoryDetailsResponse(t, outcome)
  \/ \E t \in TaskIds, outcome \in MainOutcomes : TopicsResponse(t, outcome)
  \/ \E t \in TaskIds, outcome \in MainOutcomes : ReadmeResponse(t, outcome)
  \/ \E t \in TaskIds, outcome \in MainOutcomes : CommitsResponse(t, outcome)
  \/ \E t \in TaskIds, i \in 1..SmallAccount, outcome \in MainOutcomes :
       FanResponse(t, i, outcome)

\* A continuation runs.
Continues ==
  \/ \E t \in TaskIds : RecentCommitsFanOut(t)
  \/ \E t \in TaskIds : RepositoryStatsDone(t)
  \/ \E t \in TaskIds : SearchDone(t, "keep")
  \/ \E t \in TaskIds : ActivityDone(t)
  \/ \E t \in TaskIds : ToolListRepositoriesDone(t)
  \/ \E t \in TaskIds : ToolRepositoryDetailsDone(t)
  \/ \E t \in TaskIds : ToolRecentCommitsDone(t)
  \/ \E t \in TaskIds : ToolRepositoryStatsDone(t)
  \/ \E t \in TaskIds : ToolSearchDone(t)
  \/ \E t \in TaskIds : ToolActivityDone(t)
  \/ \E t \in TaskIds : ToolSkillsDone(t)
  \/ \E t \in TaskIds : ToolPortfolioDone(t)
  \/ \E t \in TaskIds : CallToolDone(t)

NextLive == Arrives \/ Answers \/ Continues

SpecLive ==
  /\ InitLive
  /\ [][NextLive]_vars
  /\ WF_vars(Answers)
  /\ WF_vars(Continues)

\* The call numbered root is in progress.
InProgress(root) ==
  \E t \in Live(St) : tasks[t].parent = 0 /\ tasks[t].root = root

\* In this step a page of the list arrives at invocation t.
PageArrives(t) ==
  /\ t \in 1..Len(tasks)
  /\ ListRepositoriesResponse(t, HttpOk)

\* C30: every tool call returns in the end, and what it returns is an
\* envelope; listRepositories asks for the next page whenever the page that
\* arrived has exactly 100 entries, whatever the page's number, and returns
\* when it has fewer.
C30_Returns ==
  /\ \A root \in 1..PagesCalls : InProgress(root) ~> ~InProgress(root)
  /\ [](ret.op = "CallTool"
        => /\ ret.out.st = "ok"
           /\ "success" \in DOMAIN ret.out.v.o.content)
  /\ [][\A t \in 1..Len(tasks) :
          PageArrives(t)
          => LET page == tasks[t].l.page
                 full == Len(PageOf(remote.repos, page, PerPage)) = 100
             IN  IF full
                 THEN /\ tasks'[t].pc = "http"
                      /\ tasks'[t].req = [api |-> "listForUser",
                                          arg |-> [page |-> page + 1, per_page |-> 100]]
                 ELSE ~(/\ t \in 1..Len(tasks')
                        /\ tasks'[t].fn = "listRepositories"
                        /\ tasks'[t].pc = "http")]_vars

\* The list of an account of two full pages has been returned, after the
\* third page, an empty one, was asked for.
C30_ThirdPage ==
  /\ ret.op = "CallTool"
  /\ ret.a.name = ToolName.list_repositories
  /\ ret.out.v.o.content.success
  /\ Len(remote.repos) = 2 * PerPage
  /\ Len(PageRequests(ret.root)) = 3

=============================================================================
